---------------------------- MODULE Spec2Model ----------------------------
(***************************************************************************)
(* Battle persistence/concurrency controller of TheNinjaRPG:               *)
(* combatRouter.getBattle and combatRouter.performAction racing on one     *)
(* stored battle row.                                                      *)
(*                                                                         *)
(* The request handlers are translated from the router source.  The        *)
(* combat library they call (alignBattle, calcBattleResult,                *)
(* performBattleAction, performAIaction, availableUserActions,             *)
(* updateBattle, createAction, saveUsage, updateUser) is not part of the   *)
(* available source; those operators are modelled from the written         *)
(* specification and are marked as such in the model map.                  *)
(*                                                                         *)
(* Object identity matters in performAction: `newBattle` starts as the     *)
(* same object as `battle` (alias = TRUE) and alignBattle mutates its      *)
(* argument in place, while the action resolvers return a fresh battle     *)
(* object ("mutates a local copy").                                        *)
(*                                                                         *)
(* Battle initiation (attackUser / startArenaBattle calling                *)
(* initiateBattle) and staffRouter.forceAwake work on the userData, battle *)
(* and battleHistory tables; they are specified apart from the battle      *)
(* controller (SpecInitiate, SpecStaff).  initiateBattle runs inside       *)
(* client.transaction, which commits when its callback returns and rolls   *)
(* back when it throws.                                                    *)
(*                                                                         *)
(* The ANBU router (anbuRouter) works on the anbuSquad table, on           *)
(* userData.anbuId and on the userRequest rows of type ANBU (SpecAnbu).    *)
(* Its handlers read, test and write without a transaction: acceptRequest  *)
(* is modelled in two steps, its reads and guards and then its writes, so  *)
(* that other calls can come in between; every other mutation is one step. *)
(* The users, the villages and the constants of drizzle/constants are not  *)
(* part of the available source.                                           *)
(***************************************************************************)
EXTENDS Integers, Sequences, FiniteSets, TLC

VARIABLES
    dbBattle,   \* the battle row of the store, or NoBattle
    dbLog,      \* battleAction rows: set of [req, attempt, battleVersion]
    dbUsers,    \* userData rows: userId -> [status]
    dbUsage,    \* usage rows written by saveUsage: set of userIds
    pubs,       \* notifications published on the battle channel: set of [req, attempt, version]
    faults,     \* how many store operations have failed for want of the store
    timerOut,   \* the turn timer of the stored battle's active actor has run out
    aiPolicy,   \* the policy of the AI decision module
    rq,         \* per request: the handler's local variables and position
    userData,       \* the userData table: userId -> row
    battles,        \* the battle table as initiateBattle fills it: set of rows
    battleHistory,  \* the battleHistory table: set of rows
    actionLog,      \* the actionLog table the staff router writes: set of rows
    calls,          \* per initiateBattle call: its arguments, locals and position
    snapshot,       \* initiateBattle's in-memory preparation: one combatant, the ground
    anbuSquad,      \* the anbuSquad table: squad id -> row
    anbuId,         \* userData.anbuId of the users the ANBU router works on
    userRequest,    \* the userRequest rows of type ANBU: request id -> row
    accepts,        \* per acceptRequest call: what it read, and its position
    anbuCalls       \* the number of ANBU mutations that passed their guards

\* What the battle controller works on, what battle initiation and the
\* staff router work on, and what the ANBU router works on.
combatVars == <<dbBattle, dbLog, dbUsers, dbUsage, pubs, faults, timerOut, aiPolicy, rq>>
worldVars == <<userData, battles, battleHistory, actionLog, calls, snapshot>>
anbuVars == <<anbuSquad, anbuId, userRequest, accepts, anbuCalls>>

vars == <<dbBattle, dbLog, dbUsers, dbUsage, pubs, faults, timerOut, aiPolicy, rq,
          userData, battles, battleHistory, actionLog, calls, snapshot,
          anbuSquad, anbuId, userRequest, accepts, anbuCalls>>

------------------------------------------------------------------------------
(* Bounds of the model *)

\* cap on the iterations of performAction's inner loop that one request may run
MaxIters == 7
\* cap on the store operations that fail because the store is unreachable
MaxFaults == 3

\* cap on the staff actions that are logged
MaxStaff == 1

\* nActions < 5: the cap on the actions one request chains
ChainCap == 5

\* the requests in flight
Reqs == {1, 2}

None == "none"
\* an optional coordinate that was not given
NoCoord == 0 - 1
\* a null battle result
NoResult == [some |-> FALSE, friendsLeft |-> 0, targetsLeft |-> 0]
NoBattle == [exists |-> FALSE]
\* an empty battle description
NoDesc == [actor |-> "none", action |-> "none"]
NoSnapshot == [step |-> "none"]

Humans == {"u1", "u2"}
AIs == {"ai", "ai2"}
isAi(u) == u \in AIs

\* tiles used as action targets: one adjacent to a combatant, one out of range
NearTile == <<5, 2>>
FarTile == <<12, 4>>
\* the tile hard-coded by the forced skip
SkipTile == <<1, 1>>

------------------------------------------------------------------------------
(* The combat library, modelled from the written specification.            *)
(* A battle object is a record                                             *)
(*   [exists, version, round, activeUserId, users, acted, stunned, down,   *)
(*    left, applied, expired]                                              *)
(* users: the combatants; acted: who consumed their turn this round;       *)
(* stunned/down/left: who carries a stun effect, has health 0, has left;   *)
(* applied: how many actions have been applied to reach this state;        *)
(* expired: the turn timer of the active actor has run out (the clock is   *)
(* read when the row is fetched: the handler's own steps take no time).    *)
(* Time only moves on: once the timer of the stored turn was seen run out, *)
(* every later read of that turn sees it run out (timerOut).               *)

inBattle(b) == b.users \ (b.down \cup b.left)

calcIsStunned(b, userId) == userId \in b.stunned

\* The next combatant in turn order after `userId` (two combatants: the other
\* one while it is still in the battle).
nextActor(b, userId) ==
    IF inBattle(b) \ {userId} # {}
    THEN CHOOSE u \in inBattle(b) \ {userId} : TRUE
    ELSE userId

\* alignBattle(battle, viewerId): sets activeUserId/round of the object it is
\* given to the currently correct values.  The active actor's turn is over when
\* it consumed its turn, when it is no longer in the battle, or when the turn
\* timer ran out.
\* progressRound: every combatant has consumed its turn.
alignBattle(b) ==
    LET active   == b.activeUserId
        turnOver == inBattle(b) # {}
                    /\ (active \in b.acted \/ b.expired \/ active \notin inBattle(b))
        acted1   == b.acted \cup {active}
        progress == turnOver /\ (inBattle(b) \ acted1 = {})
        nb == IF ~turnOver THEN b
              ELSE [b EXCEPT !.activeUserId = nextActor(b, active),
                             !.acted = IF progress THEN {} ELSE acted1,
                             !.expired = FALSE,
                             !.round = IF progress THEN @ + 1 ELSE @]
    IN  [battle        |-> nb,
         actor         |-> nb.activeUserId,
         progressRound |-> progress,
         actionRound   |-> nb.round,
         isStunned     |-> calcIsStunned(nb, nb.activeUserId)]

\* The combatants that still have to collect their result: the users that
\* have not left the battle (the AI has no result to collect).
remaining(b) == {u \in b.users \ b.left : ~isAi(u)}

\* calcBattleResult(battle, viewerId): null while the battle is ongoing for the
\* viewer; once one side is cleared the viewer leaves the battle and the
\* result counts the combatants remaining on each side.
calcBattleResult(b, viewer) ==
    LET ends == viewer \in b.users \ b.left
                /\ (viewer \in b.down \/ (b.users \ {viewer}) \cap inBattle(b) = {})
        nb   == IF ends THEN [b EXCEPT !.left = @ \cup {viewer}] ELSE b
    IN  [battle |-> nb,
         result |-> IF ends
                    THEN [some        |-> TRUE,
                          friendsLeft |-> Cardinality({viewer} \cap remaining(nb)),
                          targetsLeft |-> Cardinality(remaining(nb) \ {viewer})]
                    ELSE NoResult]

isBattleOver(result) ==
    result.some /\ result.friendsLeft + result.targetsLeft = 0

\* availableUserActions(battle, userId): the ids of the actions the user can
\* currently take.
availableUserActions(b, userId) == {"move", "stun", "hit"}

\* Targets within the range of an action of a combatant that is free to act.
\* Combatants stand at (4,2) and (8,2): the adjacent tile is in range, the far
\* tile and the tile (1,1) are not.
inRange(tile) == tile = NearTile

\* The effect of one legal action of `actorId` on a copy of the battle.
applyAction(b, actionId, actorId) ==
    LET others == b.users \ {actorId}
        base   == [b EXCEPT !.applied = @ + 1]
    IN  CASE actionId = "skip" -> [base EXCEPT !.acted = @ \cup {actorId},
                                               !.stunned = @ \ {actorId}]
          [] actionId = "move" -> [base EXCEPT !.acted = @ \cup {actorId}]
          [] actionId = "stun" -> [base EXCEPT !.acted = @ \cup {actorId},
                                               !.stunned = @ \cup others]
          [] actionId = "hit"  -> [base EXCEPT !.acted = @ \cup {actorId},
                                               !.down = @ \cup others]
          [] OTHER             -> base

\* performBattleAction({battle, action, actorId, longitude, latitude}):
\* raises (ok = FALSE) on an illegal action without changing anything, else
\* returns a new battle object and the description of what happened.  A
\* stunned actor can only be made to skip.
performBattleAction(b, actionId, actorId, longitude, latitude) ==
    IF actorId \notin inBattle(b)
    THEN [ok |-> FALSE, newBattle |-> b, desc |-> NoDesc]
    ELSE IF calcIsStunned(b, actorId)
    THEN [ok |-> TRUE, newBattle |-> applyAction(b, "skip", actorId),
          desc |-> [actor |-> actorId, action |-> "skip"]]
    ELSE IF ~inRange(<<longitude, latitude>>)
    THEN [ok |-> FALSE, newBattle |-> b, desc |-> NoDesc]
    ELSE [ok |-> TRUE, newBattle |-> applyAction(b, actionId, actorId),
          desc |-> [actor |-> actorId, action |-> actionId]]

\* The AI decision module: a policy picks the AI's action from the battle it
\* is shown.  The simple policies always choose the same action ("pass": no
\* action, "error": the module raises); the mixed ones open with a cheap
\* action that leaves the AI its turn ("jab") and then do something else.
AIPolicies == {"move", "jab", "hit", "pass", "error",
               "jab-move", "jab-pass", "jab-error"}

aiChoice(policy, b) ==
    CASE policy = "jab-move"  -> IF b.applied % 2 = 0 THEN "jab" ELSE "move"
      [] policy = "jab-pass"  -> IF b.applied % 2 = 0 THEN "jab" ELSE "pass"
      [] policy = "jab-error" -> IF b.applied % 2 = 0 THEN "jab" ELSE "error"
      [] OTHER                -> policy

\* performAIaction(battle, grid): the active AI applies the action its policy
\* chose, or skips its turn when it is stunned; "pass" (and a battle whose
\* active actor is no AI in the battle) yields no description; "error" raises.
performAIaction(b, policy) ==
    LET actor  == b.activeUserId
        choice == aiChoice(policy, b)
    IN
    IF ~isAi(actor) \/ actor \notin inBattle(b)
    THEN [ok |-> TRUE, nextBattle |-> b, desc |-> NoDesc]
    ELSE IF calcIsStunned(b, actor)
    THEN [ok |-> TRUE, nextBattle |-> applyAction(b, "skip", actor),
          desc |-> [actor |-> actor, action |-> "skip"]]
    ELSE IF choice = "error"
    THEN [ok |-> FALSE, nextBattle |-> b, desc |-> NoDesc]
    ELSE IF choice = "pass"
    THEN [ok |-> TRUE, nextBattle |-> b, desc |-> NoDesc]
    ELSE [ok |-> TRUE, nextBattle |-> applyAction(b, choice, actor),
          desc |-> [actor |-> actor, action |-> choice]]

------------------------------------------------------------------------------
(* The store operations of the combat library (libs/combat/database),      *)
(* modelled from the written specification: a version-guarded write of the *)
(* battle row, and the writes that follow it.                              *)

\* updateBattle(db, result, newBattle, fetchedVersion): accepted only while the
\* stored version equals fetchedVersion; a terminal battle's row is removed.
updateBattleAccepted(stored, fetchedVersion) ==
    stored.exists /\ stored.version = fetchedVersion

updateBattle(stored, result, newBattle, fetchedVersion) ==
    IF isBattleOver(result) THEN NoBattle ELSE newBattle

\* createAction(db, newBattle, history): one battleAction row per history entry.
createAction(log, r, attempt, history) ==
    log \cup {[req |-> r, attempt |-> attempt, idx |-> i,
               battleVersion |-> history[i].battleVersion] : i \in 1 .. Len(history)}

\* saveUsage(db, newBattle, result, userId): usage statistics of a finished battle.
saveUsage(usage, result, userId) ==
    IF result.some THEN usage \cup {userId} ELSE usage

\* updateUser(db, newBattle, result, userId): folds the result into the user row.
updateUser(users, result, userId) ==
    IF result.some /\ userId \in DOMAIN users
    THEN [users EXCEPT ![userId] = [status |-> "AWAKE"]]
    ELSE users

\* The battle as a client would see it with nothing hidden: every
\* combatant's private state is in it.
Unmasked(b) ==
    [exists |-> TRUE, version |-> b.version, round |-> b.round,
     activeUserId |-> b.activeUserId, users |-> b.users, private |-> b.users]

\* maskBattle(battle, userId): a copy in which the private state of every
\* combatant but the viewer is hidden.
maskBattle(b, userId) ==
    [Unmasked(b) EXCEPT !.private = @ \cap {userId}]

------------------------------------------------------------------------------
(* combatRouter.performAction: the handler's local steps.                  *)

Return(q, kind, uc) == [q EXCEPT !.pc = "done", !.ret = kind, !.updateClient = uc]
Throw(q, kind) == [q EXCEPT !.pc = "thrown", !.ret = kind]

\* getBattle: if (!input.battleId) / if (!userBattle)
\* return { battle: null, result: null };
GetMissing(q, why) ==
    [Return(q, why, "undefined") EXCEPT !.returned = NoBattle, !.result = NoResult]

PerformMissing_Silent(q) == Return(q, "NoBattle", "false")

\* performAction: if (!battle) return { updateClient: true };
PerformMissing(q) == Return(q, "NoBattle", "true")

\* getBattle: const newMaskedBattle = maskBattle(userBattle, ctx.userId);
\* return { battle: newMaskedBattle, result: result };
GetReply(q) ==
    [Return(q, "Got", "undefined") EXCEPT !.returned = maskBattle(q.battle, q.suid)]

PerformReply_Unmasked(q) ==
    [Return(q, "Success", "true") EXCEPT !.returned = Unmasked(q.newBattle)]

\* performAction: const newMaskedBattle = maskBattle(newBattle, suid);
\* return { updateClient: true, battle: newMaskedBattle, result, logEntries };
PerformReply(q) ==
    [Return(q, "Success", "true") EXCEPT !.returned = maskBattle(q.newBattle, q.suid)]

StunFill_Keep(input) == input

\* input.actionId = "move"; input.longitude = 1; input.latitude = 1
StunFill(input) ==
    [actionId |-> "move", longitude |-> SkipTile[1], latitude |-> SkipTile[2]]

\* The guard of the user-action branch: coordinates and action id are given.
InputGiven(input) ==
    input.longitude # NoCoord /\ input.latitude # NoCoord /\ input.actionId # None

TurnRejected_StunnedOnly(isStunned, isUserTurn, isAITurn) ==
    isStunned /\ ~isUserTurn /\ ~isAITurn

\* Only allow action if it is the user's turn
TurnRejected(isStunned, isUserTurn, isAITurn) ==
    ~isStunned /\ ~isUserTurn /\ ~isAITurn

ActionRejected_Swallowed(q) == [q EXCEPT !.pc = "commit"]

\* catch (error) { ...; return { updateClient: false, notification }; }
ActionRejected(q) == Return(q, "ActionError", "false")

StateUnchanged_Negated(actionPerformed, newBattle, originalRound, originalActiveUserId) ==
    /\ actionPerformed
    /\ newBattle.round = originalRound
    /\ newBattle.activeUserId = originalActiveUserId

\* If battle state didn't change, just return without updating battle version
StateUnchanged(actionPerformed, newBattle, originalRound, originalActiveUserId) ==
    /\ ~actionPerformed
    /\ newBattle.round = originalRound
    /\ newBattle.activeUserId = originalActiveUserId

\* The version the commit stores: newBattle.version + nActions
BumpVersion(version, nActions) == version + nActions

CommitCatch_OneMore(q) ==
    IF q.attempts > 2
    THEN Throw(q, "CommitError")
    ELSE [q EXCEPT !.attempts = @ + 1, !.pc = "inner"]

\* The catch block of the commit: rethrow after the third failure, else count
\* the attempt and go on with the inner loop.
CommitCatch(q) ==
    IF q.attempts > 1
    THEN Throw(q, "CommitError")
    ELSE [q EXCEPT !.attempts = @ + 1, !.pc = "inner"]

Publish_Always(result, battle) == {battle.version + 1}

\* Update the battle to the new state: the notification of the next version
\* goes out on the battle's channel unless the battle is over.
Publish(result, battle) ==
    IF isBattleOver(result) THEN {} ELSE {battle.version + 1}

\* The inner loop from the description check to its end: the second
\* alignBattle, the history entry, the result, the two `continue` branches,
\* the no-change return, and the notification published before the commit.
\* desc is what the action branch described; pub is the published event.
AfterAction(q, a1, desc) ==
    IF desc = NoDesc /\ q.actionPerformed /\ Len(q.history) = 0
    THEN [q |-> Return(q, "NoDescription", "false"), pub |-> {}]
    ELSE
    LET a2       == alignBattle(q.newBattle)
        newActor == a2.actor
        hasDesc  == desc # NoDesc \/ (q.actionPerformed /\ a2.progressRound)
        hist     == IF hasDesc
                    THEN Append(q.history,
                                [battleRound   |-> a1.actionRound,
                                 actor         |-> desc.actor,
                                 action        |-> desc.action,
                                 battleVersion |-> a2.battle.version + q.nActions])
                    ELSE q.history
        nAct     == IF hasDesc THEN q.nActions + 1 ELSE q.nActions
        res      == calcBattleResult(a2.battle, q.suid)
        nb       == res.battle
        q2       == [q EXCEPT !.newBattle = nb,
                              !.battle = IF q.alias THEN nb ELSE @,
                              !.history = hist,
                              !.nActions = nAct,
                              !.result = res.result]
    IN  IF calcIsStunned(nb, newActor)
        THEN [q |-> [q2 EXCEPT !.input = StunFill(q.input), !.forced = newActor],
              pub |-> {}]
        ELSE IF isAi(newActor) /\ nAct < ChainCap /\ ~res.result.some
                /\ (newActor # a1.actor \/ hasDesc)
        THEN [q |-> q2, pub |-> {}]
        ELSE IF StateUnchanged(q.actionPerformed, nb, q.originalRound,
                               q.originalActiveUserId)
        THEN [q |-> Return(q2, "NotChanged", "undefined"), pub |-> {}]
        ELSE [q   |-> [q2 EXCEPT !.pc = "commit"],
              pub |-> Publish(res.result, q2.battle)]

\* One iteration of the inner loop, from alignBattle(battle, suid) on.
\* actor0/isStunned0/rejected record what the request met: the actor of its
\* first alignment, and whether the action resolver raised. forced is the
\* stunned next actor the forced action was filled in for, and forcedRuns
\* records for whom the iteration after the fill then acted.
InnerLoop(q, policy) ==
    LET a1         == alignBattle(q.battle)
        actor      == a1.actor
        isStunned  == a1.isStunned
        isUserTurn == actor = q.suid
        isAITurn   == isAi(actor)
        q1         == [q EXCEPT !.battle = a1.battle,
                                !.newBattle = IF q.alias THEN a1.battle ELSE @,
                                !.iters = @ + 1,
                                !.actor = actor,
                                !.isStunned = isStunned,
                                !.actor0 = IF q.iters = 0 THEN actor ELSE @,
                                !.isStunned0 = IF q.iters = 0 THEN isStunned ELSE @,
                                !.forced = None,
                                !.forcedRuns =
                                    IF q.forced = None THEN @
                                    ELSE @ \cup {[for |-> q.forced, by |-> actor,
                                                  stunned |-> isStunned]}]
    IN  IF TurnRejected(isStunned, isUserTurn, isAITurn)
        THEN [q |-> Return(q1, "NotYourTurn", "undefined"), pub |-> {}]
        ELSE IF ~isAITurn /\ (isUserTurn \/ isStunned) /\ InputGiven(q.input)
        THEN IF q.input.actionId \notin availableUserActions(q1.battle, q.suid)
             THEN [q |-> Throw(q1, "InvalidAction"), pub |-> {}]
             ELSE LET st == performBattleAction(q1.battle, q.input.actionId, actor,
                                                q.input.longitude, q.input.latitude)
                  IN  IF ~st.ok
                      THEN [q |-> ActionRejected([q1 EXCEPT !.rejected = TRUE]),
                            pub |-> {}]
                      ELSE AfterAction([q1 EXCEPT !.newBattle = st.newBattle,
                                                  !.alias = FALSE,
                                                  !.actionPerformed = TRUE],
                                       a1, st.desc)
        ELSE IF isAITurn
        THEN LET ai == performAIaction(q1.newBattle, policy)
             IN  IF ~ai.ok
                 THEN [q |-> Return(q1, "AIError", "false"), pub |-> {}]
                 ELSE AfterAction([q1 EXCEPT !.newBattle = ai.nextBattle,
                                             !.alias = FALSE,
                                             !.actionPerformed = TRUE],
                                  a1, ai.desc)
        ELSE AfterAction(q1, a1, NoDesc)

------------------------------------------------------------------------------
(* Requests *)

\* What a read of the clock can show.
ClockReads == IF timerOut THEN {TRUE} ELSE BOOLEAN

\* The timer after a write of the battle row: it starts anew when the write
\* hands the turn on.
TimerAfter(stored, written) ==
    IF written.exists /\ stored.exists
       /\ written.activeUserId = stored.activeUserId /\ written.round = stored.round
    THEN timerOut
    ELSE FALSE

\* fetchBattle(client, battleId): the stored row, read at a time at which the
\* active actor's turn timer has run out or not.
fetchBattle(stored, timedOut) ==
    IF stored.exists THEN [stored EXCEPT !.expired = timedOut] ELSE stored

\* What a client may send to performAction (performActionSchema: all three
\* of actionId, longitude, latitude are optional).
Inputs ==
    {[actionId |-> None,   longitude |-> NoCoord,     latitude |-> NoCoord],
     [actionId |-> "move", longitude |-> NearTile[1], latitude |-> NearTile[2]],
     [actionId |-> "stun", longitude |-> NearTile[1], latitude |-> NearTile[2]],
     [actionId |-> "hit",  longitude |-> NearTile[1], latitude |-> NearTile[2]],
     [actionId |-> "move", longitude |-> FarTile[1],  latitude |-> FarTile[2]],
     [actionId |-> "bogus", longitude |-> NearTile[1], latitude |-> NearTile[2]],
     [actionId |-> "move", longitude |-> NearTile[1], latitude |-> NoCoord]}

NoInput == [actionId |-> None, longitude |-> NoCoord, latitude |-> NoCoord]

\* A battle between two combatants as initiateBattle stores it, with either
\* combatant first to act and at most one of them stunned.
FreshBattles ==
    {[exists |-> TRUE, version |-> 0, round |-> 1, activeUserId |-> a,
      users |-> us, acted |-> {}, stunned |-> st, down |-> {}, left |-> {},
      applied |-> 0, expired |-> FALSE] :
        <<us, a, st>> \in {t \in {{"u1", "u2"}, {"u1", "ai"}} \X (Humans \cup AIs)
                                  \X ({{}} \cup {{u} : u \in Humans \cup AIs}) :
                             t[2] \in t[1] /\ t[3] \subseteq t[1]}}

\* The same battles half-way through the round: the other combatant has acted.
MidRoundBattles ==
    {[b EXCEPT !.acted = b.users \ {b.activeUserId}, !.applied = 1, !.version = 1] :
        b \in FreshBattles}

\* A battle of two users that u1 has won and left, and u2 has yet to leave.
DecidedBattles ==
    {[b EXCEPT !.acted = {"u1"}, !.down = {"u2"}, !.left = {"u1"},
               !.applied = 1, !.version = 1] :
        b \in {f \in FreshBattles : f.users = {"u1", "u2"} /\ f.stunned = {}
                                       /\ f.activeUserId = "u1"}}

\* The states the stored battle can be in when a request arrives.
InitBattles == FreshBattles \cup MidRoundBattles \cup DecidedBattles

\* The locals of a request that has not read the battle yet.
NewRequest(kind, suid, input) ==
    [kind |-> kind, suid |-> suid, input |-> input, input0 |-> input,
     battleId |-> "b", fetchedAt |-> 0,
     pc |-> IF kind = "perform" THEN "fetch" ELSE "gfetch",
     attempts |-> 0,
     battle |-> NoBattle, newBattle |-> NoBattle, alias |-> TRUE,
     fetched |-> NoBattle, fetchedVersion |-> 0,
     history |-> <<>>, nActions |-> 0, actionPerformed |-> FALSE,
     originalRound |-> 0, originalActiveUserId |-> None,
     result |-> NoResult, progressRound |-> FALSE,
     actor |-> None, isStunned |-> FALSE,
     ret |-> None, updateClient |-> None,
     actor0 |-> None, isStunned0 |-> FALSE,
     iters |-> 0, fetches |-> 0, commits |-> 0,
     wrote |-> 0, published |-> 0, accepted |-> {}, torn |-> FALSE,
     rejected |-> FALSE, forced |-> None, forcedRuns |-> {},
     returned |-> NoBattle]

Requests ==
    {NewRequest("perform", u, i) : u \in Humans, i \in Inputs}
      \cup {NewRequest("get", u, NoInput) : u \in Humans}
      \cup {[NewRequest("get", u, NoInput) EXCEPT !.battleId = None] : u \in Humans}

\* The record kept of an accepted write of the battle row: the row the request
\* had read, the version that guarded the write, the version it stored, and
\* whether it removed the row.
Write(read, guard, newBattle, result) ==
    [read |-> read, old |-> guard, new |-> newBattle.version,
     removed |-> isBattleOver(result)]

\* A request slot that is not used.
Absent == [NewRequest("none", "u1", NoInput) EXCEPT !.pc = "absent"]

\* The second request of a race.
Racers ==
    {NewRequest("perform", u, i) :
        u \in Humans,
        i \in {NoInput,
               [actionId |-> "move", longitude |-> NearTile[1], latitude |-> NearTile[2]]}}
      \cup {NewRequest("get", u, NoInput) : u \in Humans}

------------------------------------------------------------------------------
(* Battle initiation: combatRouter.attackUser / startArenaBattle calling    *)
(* initiateBattle, and staffRouter.forceAwake.                              *)

\* the user accounts of the store, the AI among them
Accounts == {"u1", "u2", "u3", "ai"}
Players == Accounts \ AIs
\* a target id for which there is no row
Nobody == "nobody"

\* the initiateBattle calls in flight
Calls == {1, 2}

\* Places on the travel map, as <<sector, longitude, latitude>>.
Here == <<1, 3, 3>>
West == <<1, 0, 3>>
Tiles == {Here, West}
\* a place in another sector, where nobody is
Abroad == <<2, 3, 3>>

\* users[0]["longitude"] = 4; users[0]["latitude"] = 2
LeftTile == <<4, 2>>
\* users[1]["longitude"] = 8; users[1]["latitude"] = 2
RightTile == <<8, 2>>

\* the nanoid() of a call
BattleIdOf(c) == IF c = 1 THEN "b1" ELSE "b2"

\* A userData row. villageSector is the sector of the user's village (0: no
\* village); immunityUntil is "past", "now" or "future".
UserRow(status, place, villageSector, immunityUntil) ==
    [status |-> status, battleId |-> None,
     sector |-> place[1], longitude |-> place[2], latitude |-> place[3],
     villageSector |-> villageSector, immunityUntil |-> immunityUntil,
     level |-> 1, pvpFights |-> 0, pveFights |-> 0]

\* battleHistory rows of battles that were fought before: createdAt is within
\* the last 60 minutes ("recent") or not ("old").
PriorHistory ==
    {{},
     {[battleId |-> "p1", attackedId |-> "u1", defenderId |-> "u2", createdAt |-> "recent"]},
     {[battleId |-> "p1", attackedId |-> "u1", defenderId |-> "u2", createdAt |-> "recent"],
      [battleId |-> "p2", attackedId |-> "u2", defenderId |-> "u1", createdAt |-> "recent"],
      [battleId |-> "p3", attackedId |-> "u3", defenderId |-> "u1", createdAt |-> "recent"]},
     {[battleId |-> "p1", attackedId |-> "u2", defenderId |-> "u1", createdAt |-> "old"]}}

\* The locals of an initiateBattle call that has not started.
NewCall ==
    [pc |-> "idle", battleType |-> None, userId |-> None, targetId |-> None,
     sector |-> NoCoord, longitude |-> NoCoord, latitude |-> NoCoord,
     users |-> <<>>, previousBattles |-> 0, rewardScaling |-> [num |-> 1, den |-> 1],
     activeUserId |-> None, battleId |-> None, rowsAffected |-> 0,
     success |-> FALSE, message |-> None, encounters |-> 0]

\* The sessions that make a call: the first call is u1's, the second is
\* anybody's.
Callers(c) == IF c = 1 THEN {"u1"} ELSE Players

\* The arguments attackUser passes to initiateBattle.
CallInputs(c) ==
    {[battleType |-> "COMBAT", userId |-> u, targetId |-> t,
      sector |-> p[1], longitude |-> p[2], latitude |-> p[3]] :
        <<u, t, p>> \in {x \in Callers(c) \X (Accounts \cup {Nobody})
                                     \X (Tiles \cup {Abroad}) :
                           x[1] # x[2]}}

\* The arguments a call holds for initiateBattle.
ArgsOf(call) ==
    [battleType |-> call.battleType, userId |-> call.userId,
     targetId |-> call.targetId, sector |-> call.sector,
     longitude |-> call.longitude, latitude |-> call.latitude]

------------------------------------------------------------------------------
(* The ANBU router: the tables it works on *)

\* caps on the squads ever created, on the join requests ever inserted, and
\* on the calls that pass their guards
MaxSquads == 3
MaxRequests == 2
MaxCalls == 5

SquadIds == 1..MaxSquads
RequestIds == 1..MaxRequests
AcceptCalls == {1, 2}

\* anbuId: null
NoSquad == 0

\* The most members a squad may have.
ANBU_MAX_MEMBERS == 2
ANBU_MEMBER_RANK_REQUIREMENT == "CHUNIN"
ANBU_LEADER_RANK_REQUIREMENT == "JONIN"

\* The users: the kage of village v1 and three of its ninja.  Village v1 has
\* an ANBU hall of level 2, v2 has none.
Ninjas == {"kage", "n1", "n2", "n3"}

fetchUser(userId) ==
    [userId |-> userId,
     villageId |-> "v1",
     rank |-> "JONIN",
     isAi |-> FALSE]

fetchVillage(villageId) ==
    [id |-> villageId,
     kageId |-> IF villageId = "v1" THEN "kage" ELSE None,
     structures |-> IF villageId = "v1" THEN {[name |-> "ANBU", level |-> 2]} ELSE {}]

\* hasRequiredRank(rank, required): rank is at least the required one.
hasRequiredRank(rank, required) ==
    LET UserRanks == <<"STUDENT", "GENIN", "CHUNIN", "JONIN", "ELDER">>
        index(r) == CHOOSE i \in 1..Len(UserRanks) : UserRanks[i] = r
    IN  index(rank) >= index(required)

\* The ANBU router is not called.
AnbuIdle ==
    /\ anbuSquad = [i \in SquadIds |->
                      [state |-> "none", villageId |-> None, leaderId |-> None]]
    /\ anbuId = [u \in Ninjas |-> NoSquad]
    /\ userRequest = [i \in RequestIds |->
                        [status |-> "none", senderId |-> None, receiverId |-> None]]
    /\ accepts = [c \in AcceptCalls |->
                    [pc |-> "idle", userId |-> None, id |-> 0, squadId |-> NoSquad,
                     requesterId |-> None]]
    /\ anbuCalls = 0

\* No call of initiateBattle and no staff action takes place.
InitiationIdle ==
    /\ userData = [u \in Accounts |-> UserRow("AWAKE", Here, 0, "past")]
    /\ battles = {}
    /\ battleHistory = {}
    /\ actionLog = {}
    /\ calls = [c \in Calls |-> [NewCall EXCEPT !.pc = "absent"]]
    /\ AnbuIdle

WorldIdle ==
    /\ InitiationIdle
    /\ snapshot = NoSnapshot

------------------------------------------------------------------------------
(* Initial states of the battle controller *)

InitStore ==
    /\ timerOut = FALSE
    /\ dbLog = {}
    /\ dbUsers = [u \in Humans |-> [status |-> "BATTLE"]]
    /\ dbUsage = {}
    /\ pubs = {}

\* One request at a time, on a store that may fail.
Init ==
    /\ InitStore
    /\ WorldIdle
    /\ dbBattle \in InitBattles \cup {NoBattle}
    /\ faults = 0
    /\ aiPolicy \in IF dbBattle.exists /\ "ai" \in dbBattle.users
                    THEN AIPolicies ELSE {"pass"}
    /\ rq \in {f \in [Reqs -> Requests \cup {Absent}] : f[2] = Absent /\ f[1] # Absent}

\* Two requests racing on a fresh battle in a store that does not fail.
InitRace ==
    /\ InitStore
    /\ WorldIdle
    /\ dbBattle \in FreshBattles
    /\ faults = MaxFaults
    /\ aiPolicy \in IF "ai" \in dbBattle.users THEN {"move", "jab"} ELSE {"pass"}
    /\ rq \in {f \in [Reqs -> Requests \cup Racers] : f[1] \in Requests /\ f[2] \in Racers}

------------------------------------------------------------------------------
(* performAction *)

\* The inner loop runs between two awaits without yielding: while a request
\* is inside it, no other request of the model takes a step.
InLoop(o) == rq[o].pc = "inner" /\ rq[o].iters < MaxIters
Yielded(r) == \A o \in Reqs \ {r} : ~InLoop(o)

\* const battle = await fetchBattle(db, input.battleId);
\* if (!battle) return { updateClient: true }; the locals of the outer loop.
PFetch(r) ==
    /\ Yielded(r)
    /\ rq[r].kind = "perform" /\ rq[r].pc = "fetch"
    /\ \E timedOut \in ClockReads :
        LET battle == fetchBattle(dbBattle, timedOut) IN
        /\ timerOut' = timedOut
        /\ rq' = [rq EXCEPT ![r] =
                   IF ~battle.exists
                   THEN PerformMissing(rq[r])
                   ELSE [rq[r] EXCEPT !.pc = "inner",
                                      !.battle = battle,
                                      !.newBattle = battle,
                                      !.alias = TRUE,
                                      !.fetched = dbBattle,
                                      !.fetches = @ + 1,
                                      !.history = <<>>,
                                      !.originalRound = battle.round,
                                      !.originalActiveUserId = battle.activeUserId,
                                      !.actionPerformed = FALSE,
                                      !.nActions = 0]]
    /\ UNCHANGED <<dbBattle, dbLog, dbUsers, dbUsage, pubs, faults, aiPolicy>>
    /\ UNCHANGED worldVars
    /\ UNCHANGED anbuVars

\* One iteration of the inner loop.
PInner(r) ==
    /\ Yielded(r)
    /\ rq[r].kind = "perform" /\ rq[r].pc = "inner"
    /\ rq[r].iters < MaxIters
    /\ LET out == InnerLoop(rq[r], aiPolicy)
       IN  /\ rq' = [rq EXCEPT ![r] =
                       [out.q EXCEPT !.published = @ + Cardinality(out.pub)]]
           /\ pubs' = pubs \cup {[req |-> r, attempt |-> rq[r].attempts, version |-> v] :
                                    v \in out.pub}
    /\ UNCHANGED <<dbBattle, dbLog, dbUsers, dbUsage, faults, timerOut, aiPolicy>>
    /\ UNCHANGED worldVars
    /\ UNCHANGED anbuVars

\* newBattle.version = newBattle.version + nActions;
\* await updateBattle(db, result, newBattle, battle.version);
\* fail: the store is unreachable.
PUpdate(r) ==
    /\ Yielded(r)
    /\ rq[r].kind = "perform" /\ rq[r].pc = "commit"
    /\ \E fail \in BOOLEAN :
        /\ fail => faults < MaxFaults
        /\ faults' = faults + (IF fail THEN 1 ELSE 0)
        /\ LET q      == rq[r]
               bumped == [q.newBattle EXCEPT !.version = BumpVersion(@, q.nActions)]
               qb     == [q EXCEPT !.newBattle = bumped,
                                   !.battle = IF q.alias THEN bumped ELSE @,
                                   !.commits = @ + 1]
           IN  IF ~fail /\ updateBattleAccepted(dbBattle, qb.battle.version)
               THEN /\ dbBattle' = updateBattle(dbBattle, q.result, bumped, qb.battle.version)
                    /\ timerOut' = TimerAfter(dbBattle, dbBattle')
                    /\ rq' = [rq EXCEPT ![r] =
                                [qb EXCEPT !.pc = "effects",
                                           !.wrote = @ + 1,
                                           !.accepted = @ \cup {Write(q.fetched, qb.battle.version,
                                                                  bumped, q.result)}]]
               ELSE /\ dbBattle' = dbBattle
                    /\ timerOut' = timerOut
                    /\ rq' = [rq EXCEPT ![r] = CommitCatch(qb)]
    /\ UNCHANGED <<dbLog, dbUsers, dbUsage, pubs, aiPolicy>>
    /\ UNCHANGED worldVars
    /\ UNCHANGED anbuVars

CommitOps == {"createAction", "saveUsage", "updateUser"}

\* await Promise.all([createAction(..), saveUsage(..), updateUser(..)]):
\* each write succeeds or fails on its own (ok: the ones that succeed); the
\* request returns when all did and lands in the catch block otherwise.
PEffects(r) ==
    /\ Yielded(r)
    /\ rq[r].kind = "perform" /\ rq[r].pc = "effects"
    /\ \E ok \in SUBSET CommitOps :
        LET q == rq[r]
        IN  /\ ok # CommitOps => faults < MaxFaults
            /\ faults' = faults + (IF ok # CommitOps THEN 1 ELSE 0)
            /\ dbLog' = IF "createAction" \in ok
                        THEN createAction(dbLog, r, q.commits, q.history) ELSE dbLog
            /\ dbUsage' = IF "saveUsage" \in ok
                          THEN saveUsage(dbUsage, q.result, q.suid) ELSE dbUsage
            /\ dbUsers' = IF "updateUser" \in ok
                          THEN updateUser(dbUsers, q.result, q.suid) ELSE dbUsers
            /\ rq' = [rq EXCEPT ![r] =
                        IF ok = CommitOps
                        THEN PerformReply(q)
                        ELSE CommitCatch([q EXCEPT !.torn = TRUE])]
    /\ UNCHANGED <<dbBattle, pubs, timerOut, aiPolicy>>
    /\ UNCHANGED worldVars
    /\ UNCHANGED anbuVars

------------------------------------------------------------------------------
(* getBattle *)

progressed_SameVersion(userBattle, progressRound) == userBattle

\* if (progressRound) userBattle.version = userBattle.version + 1;
progressed(userBattle, progressRound) ==
    IF progressRound THEN [userBattle EXCEPT !.version = @ + 1] ELSE userBattle

GetCatch_OneMore(q) ==
    IF q.attempts > 3 THEN Throw(q, "GetError") ELSE [q EXCEPT !.pc = "gfetch"]

\* } catch (e) { if (attempts > 2) throw e; }
GetCatch(q) ==
    IF q.attempts > 2 THEN Throw(q, "GetError") ELSE [q EXCEPT !.pc = "gfetch"]

\* The return for a missing battleId; then attempts += 1; fetchBattle (and
\* the return for a missing row); alignBattle; version bump on progressRound;
\* calcBattleResult; the decision whether to write.
GFetch(r) ==
    /\ Yielded(r)
    /\ rq[r].kind = "get" /\ rq[r].pc = "gfetch"
    /\ \E fail \in BOOLEAN, timedOut \in ClockReads :
        /\ fail => faults < MaxFaults
        /\ rq[r].battleId = None => (~fail /\ timedOut = timerOut)
        /\ faults' = faults + (IF fail THEN 1 ELSE 0)
        /\ timerOut' = timedOut
        /\ LET q  == [rq[r] EXCEPT !.attempts = @ + 1]
               userBattle == fetchBattle(dbBattle, timedOut)
               a  == alignBattle(userBattle)
               ub == progressed(a.battle, a.progressRound)
               res == calcBattleResult(ub, q.suid)
               q1 == [q EXCEPT !.battle = res.battle,
                               !.newBattle = res.battle,
                               !.fetched = dbBattle,
                               !.fetchedAt = q.attempts,
                               !.fetches = @ + 1,
                               !.fetchedVersion = dbBattle.version,
                               !.progressRound = a.progressRound,
                               !.result = res.result]
           IN  rq' = [rq EXCEPT ![r] =
                        IF rq[r].battleId = None THEN GetMissing(rq[r], "NoBattleId")
                        ELSE IF fail THEN GetCatch(q)
                        ELSE IF ~dbBattle.exists THEN GetMissing(q, "NoBattle")
                        ELSE IF isBattleOver(res.result) \/ a.progressRound
                        THEN [q1 EXCEPT !.pc = "gupdate"]
                        ELSE IF res.result.some
                        THEN [q1 EXCEPT !.pc = "guser"]
                        ELSE GetReply(q1)]
    /\ UNCHANGED <<dbBattle, dbLog, dbUsers, dbUsage, pubs, aiPolicy>>
    /\ UNCHANGED worldVars
    /\ UNCHANGED anbuVars

\* await updateBattle(ctx.drizzle, result, userBattle, fetchedVersion);
GUpdate(r) ==
    /\ Yielded(r)
    /\ rq[r].kind = "get" /\ rq[r].pc = "gupdate"
    /\ \E fail \in BOOLEAN :
        /\ fail => faults < MaxFaults
        /\ faults' = faults + (IF fail THEN 1 ELSE 0)
        /\ LET q0 == [rq[r] EXCEPT !.commits = @ + 1]
               q  == IF ~fail /\ updateBattleAccepted(dbBattle, q0.fetchedVersion)
                     THEN [q0 EXCEPT !.accepted =
                                @ \cup {Write(q0.fetched, q0.fetchedVersion,
                                                 q0.battle, q0.result)}]
                     ELSE q0
           IN  IF ~fail /\ updateBattleAccepted(dbBattle, q.fetchedVersion)
               THEN /\ dbBattle' = updateBattle(dbBattle, q.result, q.battle, q.fetchedVersion)
                    /\ timerOut' = TimerAfter(dbBattle, dbBattle')
                    /\ rq' = [rq EXCEPT ![r] =
                                IF q.result.some
                                THEN [q EXCEPT !.pc = "guser", !.wrote = @ + 1]
                                ELSE GetReply([q EXCEPT !.wrote = @ + 1])]
               ELSE /\ dbBattle' = dbBattle
                    /\ timerOut' = timerOut
                    /\ rq' = [rq EXCEPT ![r] = GetCatch(q)]
    /\ UNCHANGED <<dbLog, dbUsers, dbUsage, pubs, aiPolicy>>
    /\ UNCHANGED worldVars
    /\ UNCHANGED anbuVars

\* if (result) await updateUser(ctx.drizzle, userBattle, result, ctx.userId);
GUser(r) ==
    /\ Yielded(r)
    /\ rq[r].kind = "get" /\ rq[r].pc = "guser"
    /\ \E fail \in BOOLEAN :
        /\ fail => faults < MaxFaults
        /\ faults' = faults + (IF fail THEN 1 ELSE 0)
        /\ LET q == rq[r]
           IN  IF fail
               THEN /\ dbUsers' = dbUsers
                    /\ rq' = [rq EXCEPT ![r] = GetCatch(q)]
               ELSE /\ dbUsers' = updateUser(dbUsers, q.result, q.suid)
                    /\ rq' = [rq EXCEPT ![r] = GetReply(q)]
    /\ UNCHANGED <<dbBattle, dbLog, dbUsage, pubs, timerOut, aiPolicy>>
    /\ UNCHANGED worldVars
    /\ UNCHANGED anbuVars

------------------------------------------------------------------------------

Next ==
    \E r \in Reqs :
        \/ PFetch(r)
        \/ PInner(r)
        \/ PUpdate(r)
        \/ PEffects(r)
        \/ GFetch(r)
        \/ GUpdate(r)
        \/ GUser(r)

Spec == Init /\ [][Next]_vars

SpecRace == InitRace /\ [][Next]_vars

\* performAction run to its end: the inner loop takes as many iterations as
\* the code takes (of the count of iterations beyond MaxIters only the parity
\* is kept).
PLoop(r) ==
    /\ rq[r].kind = "perform" /\ rq[r].pc = "inner"
    /\ LET out == InnerLoop(rq[r], aiPolicy)
       IN  /\ rq' = [rq EXCEPT ![r] =
                       [out.q EXCEPT !.published = @ + Cardinality(out.pub),
                                     !.iters = IF @ > MaxIters + 1 THEN MaxIters ELSE @]]
           /\ pubs' = pubs \cup {[req |-> r, attempt |-> rq[r].attempts, version |-> v] :
                                    v \in out.pub}
    /\ UNCHANGED <<dbBattle, dbLog, dbUsers, dbUsage, faults, timerOut, aiPolicy>>
    /\ UNCHANGED worldVars
    /\ UNCHANGED anbuVars

InitPerform ==
    /\ Init
    /\ \A r \in Reqs : rq[r].kind \in {"perform", "none"}

NextPerform ==
    \E r \in Reqs :
        \/ PFetch(r)
        \/ PLoop(r)
        \/ PUpdate(r)
        \/ PEffects(r)

SpecPerform == InitPerform /\ [][NextPerform]_vars

------------------------------------------------------------------------------
(* initiateBattle and forceAwake *)

\* The battle controller is not at work.
CombatIdle ==
    /\ InitStore
    /\ dbBattle = NoBattle
    /\ faults = 0
    /\ aiPolicy = "pass"
    /\ rq = [r \in Reqs |-> Absent]

\* The users as initiation can find them: u1 awake at Here; u2 anywhere,
\* awake or asleep, immune or not, at home in sector 1; u3 awake anywhere,
\* away from home; the AI awake.
InitUsers ==
    {[u \in Accounts |->
        CASE u = "u1" -> UserRow("AWAKE", Here, 1, "past")
          [] u = "u2" -> UserRow(st, p2, 1, im)
          [] u = "u3" -> UserRow("AWAKE", p3, 2, "past")
          [] OTHER    -> UserRow("AWAKE", Here, 0, "past")] :
        <<st, p2, im, p3>> \in {"AWAKE", "ASLEEP"} \X Tiles \X {"past", "future"} \X Tiles}

InitInitiate ==
    /\ CombatIdle
    /\ userData \in InitUsers
    /\ battles = {}
    /\ battleHistory \in PriorHistory
    /\ actionLog = {}
    /\ snapshot = NoSnapshot
    /\ AnbuIdle
    /\ calls = [c \in Calls |-> NewCall]

\* tx.query.userData.findMany({ where: userId or targetId }) and
\* users.sort((a) => (a.userId === userId ? -1 : 1)): the ids of the rows
\* found, the attacker's first.
findUsers(rows, userId, targetId) ==
    LET attacker == IF userId \in DOMAIN rows THEN <<userId>> ELSE <<>>
        target   == IF targetId \in DOMAIN rows /\ targetId # userId
                    THEN <<targetId>> ELSE <<>>
    IN  attacker \o target

Placed_Swapped(users) ==
    <<[userId |-> users[1], longitude |-> RightTile[1], latitude |-> RightTile[2],
       controllerId |-> users[1]],
      [userId |-> users[2], longitude |-> LeftTile[1], latitude |-> LeftTile[2],
       controllerId |-> users[2]]>>

\* usersState: the two snapshots with their positions on the combat map and
\* user.controllerId = user.userId.
Placed(users) ==
    <<[userId |-> users[1], longitude |-> LeftTile[1], latitude |-> LeftTile[2],
       controllerId |-> users[1]],
      [userId |-> users[2], longitude |-> RightTile[1], latitude |-> RightTile[2],
       controllerId |-> users[2]]>>

\* select count(*) from battleHistory where the pair matches in either
\* direction and createdAt > now - 60 min
countPrevious(history, a, b) ==
    Cardinality({h \in history :
                    /\ \/ h.attackedId = a /\ h.defenderId = b
                       \/ h.attackedId = b /\ h.defenderId = a
                    /\ h.createdAt = "recent"})

\* let rewardScaling = 1; if (previousBattles > 0) rewardScaling =
\* 1 / (previousBattles + 1), as a fraction.
scaling(previousBattles) ==
    IF previousBattles > 0
    THEN [num |-> 1, den |-> previousBattles + 1]
    ELSE [num |-> 1, den |-> 1]

\* Default to attacker, but if defender in own village, they go first.
firstToAct(rows, users) ==
    IF rows[users[2]].sector = rows[users[2]].villageSector
    THEN users[2] ELSE users[1]

\* A coordinate as a JavaScript condition: undefined and 0 are falsy.
Truthy(coord) == coord # NoCoord /\ coord # 0

Matches_AnyStatus(row, id, c) ==
    /\ id \in {c.userId, c.targetId}
    /\ c.battleType = "COMBAT" =>
          /\ row.sector = c.sector
          /\ Truthy(c.longitude) => row.longitude = c.longitude
          /\ Truthy(c.latitude) => row.latitude = c.latitude

\* The where clause of the update of userData: one of the two users, AWAKE,
\* and for COMBAT in the sector and on the coordinates given.
Matches(row, id, c) ==
    /\ id \in {c.userId, c.targetId}
    /\ row.status = "AWAKE"
    /\ c.battleType = "COMBAT" =>
          /\ row.sector = c.sector
          /\ Truthy(c.longitude) => row.longitude = c.longitude
          /\ Truthy(c.latitude) => row.latitude = c.latitude

Engaged_Everyone(row, id, c) ==
    LET pvp == c.battleType \in {"SPARRING", "COMBAT"}
    IN  [row EXCEPT
           !.status = IF isAi(id) THEN "AWAKE" ELSE "BATTLE",
           !.battleId = IF isAi(id) THEN None ELSE c.battleId,
           !.pvpFights = IF pvp THEN @ + 1 ELSE @,
           !.pveFights = IF pvp THEN @ ELSE @ + 1,
           !.immunityUntil = IF pvp THEN "now" ELSE @]

\* The set clause of the update of userData.
Engaged(row, id, c) ==
    LET pvp == c.battleType \in {"SPARRING", "COMBAT"}
    IN  [row EXCEPT
           !.status = IF isAi(id) THEN "AWAKE" ELSE "BATTLE",
           !.battleId = IF isAi(id) THEN None ELSE c.battleId,
           !.pvpFights = IF pvp THEN @ + 1 ELSE @,
           !.pveFights = IF pvp THEN @ ELSE @ + 1,
           !.immunityUntil = IF pvp /\ id = c.users[1] THEN "now" ELSE @]

\* client.transaction(async (tx) => { ... }): what the callback wrote is
\* committed when the callback returns, whatever it returns, and rolled back
\* when it throws.
transaction(stored, written, threw) == IF threw THEN stored ELSE written

\* return { success: false, message } / return { success: true, message: battleId }
Respond(call, success, message) ==
    [call EXCEPT !.pc = "done", !.success = success, !.message = message]

\* How many battles between a and b have been started: the ones fought
\* before, and the ones a call has started with success.
Encounters(a, b) ==
    Cardinality({h \in battleHistory :
                    /\ \/ h.attackedId = a /\ h.defenderId = b
                       \/ h.attackedId = b /\ h.defenderId = a
                    /\ h.createdAt = "recent"
                    /\ \A c \in Calls : h.battleId = BattleIdOf(c) => calls[c].success})

\* calcIsInVillage({ x, y }): the tile is the village's tile of a sector.
calcIsInVillage(x, y) == <<x, y>> = <<Here[2], Here[3]>>

Abs(n) == IF n < 0 THEN 0 - n ELSE n

closestAIs_Any(rows, level) == {a \in DOMAIN rows : isAi(a)}

\* ais.sort((a, b) => Math.abs(a.level - user.level) - Math.abs(b.level -
\* user.level))[0]: the AIs that can come first, those of least level distance.
closestAIs(rows, level) ==
    LET ais == {a \in DOMAIN rows : isAi(a)}
    IN  {a \in ais : \A b \in ais :
            Abs(rows[a].level - level) <= Abs(rows[b].level - level)}

\* startArenaBattle up to its call of initiateBattle: the user and the AIs are
\* read, the user must exist and be in the own village, and the closest AI is
\* the target.
StartArena(c) ==
    /\ calls[c].pc = "idle"
    /\ \E u \in Callers(c) :
        LET call == [calls[c] EXCEPT !.battleType = "ARENA", !.userId = u]
        IN  IF u \notin DOMAIN userData
            THEN calls' = [calls EXCEPT ![c] =
                             Respond(call, FALSE, "Attacking user not found")]
            ELSE IF \/ ~calcIsInVillage(userData[u].longitude, userData[u].latitude)
                    \/ userData[u].sector # userData[u].villageSector
            THEN calls' = [calls EXCEPT ![c] =
                             Respond(call, FALSE, "Must be in your own village to go to arena")]
            ELSE IF closestAIs(userData, userData[u].level) = {}
            THEN calls' = [calls EXCEPT ![c] = Respond(call, FALSE, "No AI found")]
            ELSE \E selectedAI \in closestAIs(userData, userData[u].level) :
                    calls' = [calls EXCEPT ![c] =
                                 [call EXCEPT !.pc = "called",
                                              !.targetId = selectedAI,
                                              !.sector = userData[u].sector]]
    /\ UNCHANGED <<userData, battles, battleHistory, actionLog, snapshot>>
    /\ UNCHANGED combatVars
    /\ UNCHANGED anbuVars

\* initiateBattle from the read of the two users to the reward scaling:
\* everything before the first write.
IRead(c) ==
    /\ calls[c].pc \in {"idle", "called"}
    /\ \E in \in IF calls[c].pc = "idle" THEN CallInputs(c) ELSE {ArgsOf(calls[c])} :
        LET users == findUsers(userData, in.userId, in.targetId)
            call  == [calls[c] EXCEPT !.battleType = in.battleType,
                                      !.userId = in.userId,
                                      !.targetId = in.targetId,
                                      !.sector = in.sector,
                                      !.longitude = in.longitude,
                                      !.latitude = in.latitude,
                                      !.users = users]
        IN  calls' = [calls EXCEPT ![c] =
              IF Len(users) < 1
              THEN Respond(call, FALSE, "Failed to set position of left-hand user")
              ELSE IF Len(users) < 2
              THEN Respond(call, FALSE, "Failed to set position of right-hand user")
              ELSE IF userData[users[2]].immunityUntil = "future"
              THEN Respond(call, FALSE, "Target is immune")
              ELSE IF userData[users[1]].status # "AWAKE"
              THEN Respond(call, FALSE, "You are not awake")
              ELSE IF userData[users[2]].status # "AWAKE"
              THEN Respond(call, FALSE, "Target is not awake")
              ELSE LET previousBattles ==
                           IF in.battleType # "ARENA"
                           THEN countPrevious(battleHistory, users[1], users[2])
                           ELSE 0
                   IN  [call EXCEPT !.pc = "write",
                                    !.previousBattles = previousBattles,
                                    !.rewardScaling = scaling(previousBattles),
                                    !.encounters = Encounters(users[1], users[2]),
                                    !.activeUserId = firstToAct(userData, users),
                                    !.battleId = BattleIdOf(c)]]
    /\ UNCHANGED <<userData, battles, battleHistory, actionLog, snapshot>>
    /\ UNCHANGED combatVars
    /\ UNCHANGED anbuVars

\* initiateBattle from the insert of the battle to its return: the battle
\* row, the history entry, the guarded update of the two users, and the test
\* of rowsAffected. threw: a statement failed and the callback threw.
IWrite(c) ==
    /\ calls[c].pc = "write"
    /\ \E threw \in BOOLEAN :
        LET call    == calls[c]
            row     == [id |-> call.battleId, battleType |-> call.battleType,
                        usersState |-> Placed(call.users),
                        rewardScaling |-> call.rewardScaling,
                        activeUserId |-> call.activeUserId]
            entry   == [battleId |-> call.battleId, attackedId |-> call.users[1],
                        defenderId |-> call.users[2], createdAt |-> "recent"]
            matched == {u \in DOMAIN userData : Matches(userData[u], u, call)}
            updated == [u \in DOMAIN userData |->
                          IF u \in matched THEN Engaged(userData[u], u, call)
                          ELSE userData[u]]
            done    == [call EXCEPT !.rowsAffected = Cardinality(matched)]
        IN  /\ battles' = transaction(battles, battles \cup {row}, threw)
            /\ battleHistory' =
                 transaction(battleHistory,
                             IF call.battleType # "ARENA"
                             THEN battleHistory \cup {entry} ELSE battleHistory,
                             threw)
            /\ userData' = transaction(userData, updated, threw)
            /\ calls' = [calls EXCEPT ![c] =
                 IF threw THEN [call EXCEPT !.pc = "thrown"]
                 ELSE IF done.rowsAffected # 2
                 THEN Respond(done, FALSE, "Attack failed, did the target move?")
                 ELSE Respond(done, TRUE, call.battleId)]
    /\ UNCHANGED <<actionLog, snapshot>>
    /\ UNCHANGED combatVars
    /\ UNCHANGED anbuVars

\* staffRouter.forceAwake by a user whose role may unstick others: the log
\* entry with the previous status and battle id, and the update of the
\* target's status.
ForceAwake(target) ==
    /\ target \in DOMAIN userData
    /\ Cardinality(actionLog) < MaxStaff
    /\ actionLog' = actionLog \cup
           {[tableName |-> "userData", relatedId |-> target,
             status |-> userData[target].status,
             battleId |-> userData[target].battleId]}
    /\ userData' = [userData EXCEPT ![target].status = "AWAKE"]
    /\ UNCHANGED <<battles, battleHistory, calls, snapshot>>
    /\ UNCHANGED combatVars
    /\ UNCHANGED anbuVars

Initiate ==
    \E c \in Calls : StartArena(c) \/ IRead(c) \/ IWrite(c)

Staff ==
    \E target \in Players : ForceAwake(target)

NextInitiate == Initiate

NextStaff == Initiate \/ Staff

SpecInitiate == InitInitiate /\ [][NextInitiate]_vars

\* Everybody awake at Here, nobody immune, no battle fought before.
InitStaff ==
    /\ CombatIdle
    /\ userData = [u \in Accounts |->
                      UserRow("AWAKE", Here, IF isAi(u) THEN 0 ELSE 1, "past")]
    /\ battles = {}
    /\ battleHistory = {}
    /\ actionLog = {}
    /\ snapshot = NoSnapshot
    /\ AnbuIdle
    /\ calls = [c \in Calls |-> NewCall]

SpecStaff == InitStaff /\ [][NextStaff]_vars

\* The users as startArenaBattle can find them: u1 there or not, on the
\* village tile or not, at home in the sector or not, of level 1 to 3; any of
\* the AIs of level 1 and level 3 there; u2 and u3 awake on the village tile.
InitArenaUsers ==
    {[u \in (IF there THEN {"u1"} ELSE {}) \cup {"u2", "u3"} \cup ais |->
        CASE u = "u1"  -> [UserRow("AWAKE", p1, vs, "past") EXCEPT !.level = lv]
          [] u = "ai2" -> [UserRow("AWAKE", Here, 0, "past") EXCEPT !.level = 3]
          [] OTHER     -> UserRow("AWAKE", Here, IF isAi(u) THEN 0 ELSE 1, "past")] :
        <<there, p1, vs, lv, ais>> \in
            BOOLEAN \X Tiles \X {1, 2} \X {1, 2, 3} \X SUBSET AIs}

InitArena ==
    /\ CombatIdle
    /\ userData \in InitArenaUsers
    /\ battles = {}
    /\ battleHistory = {}
    /\ actionLog = {}
    /\ snapshot = NoSnapshot
    /\ AnbuIdle
    /\ calls = [c \in Calls |-> IF c = 1 THEN NewCall ELSE [NewCall EXCEPT !.pc = "absent"]]

SpecArena == InitArena /\ [][NextInitiate]_vars

------------------------------------------------------------------------------
(* initiateBattle: the combatant snapshot.  Every fetched user row is turned
   into a battle participant in memory before anything is written: the
   pools are regenerated for the time since regenAt, and the strongest
   offence and defence are named. *)

\* The keys of the offences and defences objects, in insertion order.
Schools == <<"ninjutsu", "genjutsu", "taijutsu", "bukijutsu">>

Clock == 2
secondsPassed(regenAt) == Clock - regenAt

Min(a, b) == IF a < b THEN a ELSE b

Level == [s \in {Schools[i] : i \in 1..Len(Schools)} |-> 1]

RawUser ==
    [curHealth |-> 3, maxHealth |-> 3, curChakra |-> 2, maxChakra |-> 2,
     curStamina |-> 4, maxStamina |-> 4, regeneration |-> 0,
     regenIncrease |-> 0, regenAt |-> Clock,
     offences |-> Level, defences |-> Level,
     highestOffence |-> None, highestDefence |-> None]

\* Rows as the database holds them: 0 <= cur <= max in every pool, a
\* regeneration rate that is not negative, regenAt not in the future;
\* regenIncrease 0 also stands for a user without bloodline.
Wounded ==
    {[RawUser EXCEPT !.curHealth = in[1], !.curChakra = in[2], !.curStamina = in[3],
                     !.regeneration = in[4], !.regenIncrease = in[5], !.regenAt = in[6]] :
        in \in {0, 1, 3} \X {0, 2} \X {1, 4} \X {0, 1} \X {0, 1} \X {0, 1, Clock}}

Trained ==
    {[RawUser EXCEPT !.offences = in[1], !.defences = in[2]] :
        in \in [DOMAIN Level -> {1, 2}] \X [DOMAIN Level -> {1, 2}]}

regen(user) ==
    (IF user.regenIncrease # 0
     THEN user.regeneration + user.regenIncrease
     ELSE user.regeneration) * secondsPassed(user.regenAt)

regenerate_Unclamped(user) ==
    [user EXCEPT !.curHealth = @ + regen(user),
                 !.curChakra = @ + regen(user),
                 !.curStamina = @ + regen(user)]

regenerate(user) ==
    [user EXCEPT !.curHealth = Min(@ + regen(user), user.maxHealth),
                 !.curChakra = Min(@ + regen(user), user.maxChakra),
                 !.curStamina = Min(@ + regen(user), user.maxStamina)]

\* The reducer: the earlier key survives only when strictly greater.
stronger_KeepFirst(stats, prev, cur) == IF stats[prev] >= stats[cur] THEN prev ELSE cur

stronger(stats, prev, cur) == IF stats[prev] > stats[cur] THEN prev ELSE cur

RECURSIVE reduce(_, _, _)
reduce(stats, keys, prev) ==
    IF keys = <<>> THEN prev
    ELSE reduce(stats, Tail(keys), stronger(stats, prev, Head(keys)))

highest(stats) == reduce(stats, Tail(Schools), Head(Schools))

InitSnapshot ==
    /\ CombatIdle
    /\ InitiationIdle
    /\ snapshot \in {[step |-> "raw", before |-> u, user |-> u] : u \in Wounded \cup Trained}

Regenerate ==
    /\ snapshot.step = "raw"
    /\ snapshot' = [snapshot EXCEPT !.step = "regenerated", !.user = regenerate(@)]
    /\ UNCHANGED <<userData, battles, battleHistory, actionLog, calls>>
    /\ UNCHANGED combatVars
    /\ UNCHANGED anbuVars

Highest ==
    /\ snapshot.step = "regenerated"
    /\ snapshot' = [snapshot EXCEPT !.step = "ranked",
                       !.user.highestOffence = highest(snapshot.user.offences),
                       !.user.highestDefence = highest(snapshot.user.defences)]
    /\ UNCHANGED <<userData, battles, battleHistory, actionLog, calls>>
    /\ UNCHANGED combatVars
    /\ UNCHANGED anbuVars

NextSnapshot == Regenerate \/ Highest

SpecSnapshot == InitSnapshot /\ [][NextSnapshot]_vars

------------------------------------------------------------------------------
(* initiateBattle: the starting ground effects.  The tiles of the combat map
   are visited column by column; on each a random number is drawn and the
   first asset whose chance exceeds it is put there, unless a combatant
   stands on the tile. *)

\* The map of the model; it holds both starting tiles.
COMBAT_WIDTH == 9
COMBAT_HEIGHT == 3

\* At most this many draws fall below the chance of some asset.
MaxEffects == 2

\* Two assets; chances and random numbers in thirds.
combatAssets == <<[filename |-> "rock", chance |-> 1], [filename |-> "tree", chance |-> 2]>>
Random == {0, 1, 2}

foundUser(usersState, col, row) ==
    \E i \in 1..Len(usersState) :
        usersState[i].longitude = col /\ usersState[i].latitude = row

tag(asset, col, row) ==
    [id |-> <<"initial", col, row>>, creatorId |-> "ground", createdRound |-> 0,
     longitude |-> col, latitude |-> row, staticAssetPath |-> asset.filename]

fits_Occupied(asset, rand, found) == rand < asset.chance

fits(asset, rand, found) == rand < asset.chance /\ ~found

\* combatAssets.every(...): the callback returns false, which ends the walk,
\* as soon as it has pushed an effect.
RECURSIVE every(_, _, _, _, _)
every(assets, rand, found, col, row) ==
    IF assets = <<>> THEN <<>>
    ELSE IF fits(Head(assets), rand, found)
         THEN <<tag(Head(assets), col, row)>>
         ELSE every(Tail(assets), rand, found, col, row)

InitGround ==
    /\ CombatIdle
    /\ InitiationIdle
    /\ snapshot = [step |-> "ground", col |-> 0, row |-> 0, draws |-> 0,
                   usersState |-> Placed(<<"u1", "u2">>), groundEffects |-> <<>>]

\* One pass of the inner loop body.
GroundTile ==
    /\ snapshot.step = "ground"
    /\ \E rand \in Random :
        LET col == snapshot.col
            row == snapshot.row
            low == rand < combatAssets[Len(combatAssets)].chance
            pushed == every(combatAssets, rand,
                            foundUser(snapshot.usersState, col, row), col, row)
            lastRow == row + 1 = COMBAT_HEIGHT
            lastCol == col + 1 = COMBAT_WIDTH
        IN  /\ low => snapshot.draws < MaxEffects
            /\ snapshot' =
                 [snapshot EXCEPT
                    !.groundEffects = @ \o pushed,
                    !.draws = IF low THEN @ + 1 ELSE @,
                    !.row = IF lastRow THEN 0 ELSE row + 1,
                    !.col = IF lastRow /\ ~lastCol THEN col + 1 ELSE @,
                    !.step = IF lastRow /\ lastCol THEN "placed" ELSE @]
    /\ UNCHANGED <<userData, battles, battleHistory, actionLog, calls>>
    /\ UNCHANGED combatVars
    /\ UNCHANGED anbuVars

NextGround == GroundTile

SpecGround == InitGround /\ [][NextGround]_vars

------------------------------------------------------------------------------
(* The ANBU router: the mutations.  A mutation fetches its rows, tests its
   guards in the order of the code, returning at the first that fails, and
   then writes; no handler uses a transaction.  A call that returns an error
   leaves every table as it is.  No more than MaxCalls calls pass their
   guards in a behaviour. *)

live(squadId) == anbuSquad[squadId].state = "live"

\* with: { members }: the users whose anbuId is the squad's id
members(squadId) == {u \in Ninjas : anbuId[u] = squadId}

\* fetchSquads(client, villageId)
fetchSquads(villageId) ==
    {i \in SquadIds : live(i) /\ anbuSquad[i].villageId = villageId}

\* fetchSquadByLeader(client, leaderId): findFirst over the squads this user
\* leads; the rows it can return.
fetchSquadByLeader(leaderId) ==
    {i \in SquadIds : live(i) /\ anbuSquad[i].leaderId = leaderId}

isKage(userId) == userId = fetchVillage(fetchUser(userId).villageId).kageId

\* anbuRouter.createRequest
CreateRequest(userId, squadId) ==
    LET unused == {i \in RequestIds : userRequest[i].status = "none"}
        id == CHOOSE i \in unused : \A j \in unused : i <= j
        message ==
            IF ~live(squadId) THEN "Squad not found"
            ELSE IF fetchUser(userId).villageId # anbuSquad[squadId].villageId THEN "Wrong village"
            ELSE IF anbuId[userId] # NoSquad THEN "Already in a squad"
            ELSE IF isKage(userId) \/ fetchUser(userId).rank = "ELDER" THEN "Kage or elder cannot join"
            ELSE IF ~hasRequiredRank(fetchUser(userId).rank, ANBU_MEMBER_RANK_REQUIREMENT)
            THEN "Rank must be at least CHUNIN"
            ELSE None
    IN  /\ anbuCalls < MaxCalls
        /\ unused # {}
        /\ IF message # None
           THEN UNCHANGED anbuVars
           ELSE /\ userRequest' =
                     [userRequest EXCEPT ![id] =
                         [status |-> "PENDING", senderId |-> userId,
                          receiverId |-> anbuSquad[squadId].leaderId]]
                /\ UNCHANGED <<anbuSquad, anbuId, accepts>>
                /\ anbuCalls' = anbuCalls + 1
    /\ UNCHANGED combatVars
    /\ UNCHANGED worldVars

\* updateRequestState(client, id, state, "ANBU")
updateRequestState(requests, id, state) == [requests EXCEPT ![id].status = state]

\* anbuRouter.rejectRequest
RejectRequest(userId, id) ==
    LET request == userRequest[id]
        message == IF request.receiverId # userId
                   THEN "You can only reject requests for yourself"
                   ELSE IF request.status # "PENDING"
                   THEN "You can only reject pending requests"
                   ELSE None
    IN  /\ anbuCalls < MaxCalls
        /\ request.status # "none"
        /\ IF message # None
           THEN UNCHANGED anbuVars
           ELSE /\ userRequest' = updateRequestState(userRequest, id, "REJECTED")
                /\ UNCHANGED <<anbuSquad, anbuId, accepts>>
                /\ anbuCalls' = anbuCalls + 1
    /\ UNCHANGED combatVars
    /\ UNCHANGED worldVars

\* anbuRouter.cancelRequest
CancelRequest(userId, id) ==
    LET request == userRequest[id]
        message == IF request.senderId # userId
                   THEN "You can only cancel requests created by you"
                   ELSE IF request.status # "PENDING"
                   THEN "You can only cancel pending requests"
                   ELSE None
    IN  /\ anbuCalls < MaxCalls
        /\ request.status # "none"
        /\ IF message # None
           THEN UNCHANGED anbuVars
           ELSE /\ userRequest' = updateRequestState(userRequest, id, "CANCELLED")
                /\ UNCHANGED <<anbuSquad, anbuId, accepts>>
                /\ anbuCalls' = anbuCalls + 1
    /\ UNCHANGED combatVars
    /\ UNCHANGED worldVars

\* anbuRouter.acceptRequest from its fetches to its last guard
AcceptRead(c, userId, id) ==
    LET request == userRequest[id]
        found == fetchSquadByLeader(request.receiverId)
    IN  /\ anbuCalls < MaxCalls
        /\ accepts[c].pc = "idle"
        /\ \A b \in AcceptCalls : b < c => accepts[b].pc # "idle"
        /\ request.status # "none"
        /\ IF found = {}
           THEN UNCHANGED anbuVars
           ELSE \E squadId \in found :
                  LET message ==
                          IF Cardinality(members(squadId)) >= ANBU_MAX_MEMBERS THEN "Squad is full"
                          ELSE IF userId # request.receiverId THEN "Not your request"
                          ELSE IF userId # anbuSquad[squadId].leaderId THEN "Not squad leader"
                          ELSE IF anbuId[request.senderId] # NoSquad THEN "Requester already in a squad"
                          ELSE IF fetchUser(request.senderId).villageId # fetchUser(request.receiverId).villageId
                          THEN "!= village"
                          ELSE IF ~hasRequiredRank(fetchUser(request.receiverId).rank,
                                                   ANBU_MEMBER_RANK_REQUIREMENT)
                          THEN "Rank must be at least CHUNIN"
                          ELSE None
                  IN  IF message # None
                      THEN UNCHANGED anbuVars
                      ELSE /\ accepts' = [accepts EXCEPT ![c] =
                                            [pc |-> "read", userId |-> userId, id |-> id,
                                             squadId |-> squadId,
                                             requesterId |-> request.senderId]]
                           /\ UNCHANGED <<anbuSquad, anbuId, userRequest>>
                           /\ anbuCalls' = anbuCalls + 1
    /\ UNCHANGED combatVars
    /\ UNCHANGED worldVars

\* anbuRouter.acceptRequest: its two writes, and its return
AcceptWrite(c) ==
    LET a == accepts[c]
    IN  /\ a.pc = "read"
        /\ userRequest' = updateRequestState(userRequest, a.id, "ACCEPTED")
        /\ anbuId' = [anbuId EXCEPT ![a.requesterId] = a.squadId]
        /\ accepts' = [accepts EXCEPT ![c] =
                          [pc |-> "idle", userId |-> None, id |-> 0, squadId |-> NoSquad,
                           requesterId |-> None]]
        /\ UNCHANGED <<anbuSquad, anbuCalls>>
    /\ UNCHANGED combatVars
    /\ UNCHANGED worldVars

\* anbuRouter.createSquad
CreateSquad(userId, leaderId, villageId) ==
    LET unused == {i \in SquadIds : anbuSquad[i].state = "none"}
        new == CHOOSE i \in unused : \A j \in unused : i <= j
        message ==
            LET user == fetchUser(userId)
                leader == fetchUser(leaderId)
                village == fetchVillage(villageId)
                anbus == fetchSquads(villageId)
                halls == {h \in village.structures : h.name = "ANBU"}
            IN  IF halls = {} THEN "ANBU hall not found"
                ELSE IF ~isKage(userId) /\ ~fetchUser(userId).rank = "ELDER" THEN "Not kage or elder"
                ELSE IF villageId # user.villageId THEN "Wrong user village"
                ELSE IF villageId # leader.villageId THEN "Wrong leader village"
                ELSE IF \E structure \in halls : Cardinality(anbus) > structure.level
                THEN "Max squads reached"
                ELSE IF anbuId[leaderId] # NoSquad THEN "Leader already in a squad"
                ELSE IF leader.isAi THEN "AI cannot be leader"
                ELSE IF leaderId = village.kageId THEN "Cannot choose kage"
                ELSE IF leader.rank = "ELDER" THEN "Cannot choose elder"
                ELSE IF ~hasRequiredRank(leader.rank, ANBU_LEADER_RANK_REQUIREMENT)
                THEN "Leader rank too low"
                ELSE None
    IN  /\ anbuCalls < MaxCalls
        /\ unused # {}
        /\ IF message # None
           THEN UNCHANGED anbuVars
           ELSE /\ anbuSquad' = [anbuSquad EXCEPT ![new] =
                                    [state |-> "live", villageId |-> villageId,
                                     leaderId |-> leaderId]]
                /\ anbuId' = [anbuId EXCEPT ![leaderId] = new]
                /\ UNCHANGED <<userRequest, accepts>>
                /\ anbuCalls' = anbuCalls + 1
    /\ UNCHANGED combatVars
    /\ UNCHANGED worldVars

\* anbuRouter.swapLeader.  Its three updates run side by side: when the new
\* leader is the old one, two of them write the same anbuId and either may
\* be the last.
SwapLeader(userId, squadId, newLeaderId) ==
    LET message ==
            IF ~live(squadId) THEN "Squad not found"
            ELSE IF fetchUser(userId).villageId # anbuSquad[squadId].villageId THEN "Wrong village"
            ELSE IF fetchUser(newLeaderId).villageId # anbuSquad[squadId].villageId
            THEN "Wrong village"
            ELSE IF ~isKage(userId) /\ ~fetchUser(userId).rank = "ELDER" THEN "Must be kage or elder"
            ELSE IF ~hasRequiredRank(fetchUser(newLeaderId).rank, ANBU_LEADER_RANK_REQUIREMENT)
            THEN "Leader rank too low"
            ELSE None
        old == anbuSquad[squadId].leaderId
    IN  /\ anbuCalls < MaxCalls
        /\ IF message # None
           THEN UNCHANGED anbuVars
           ELSE /\ anbuSquad' = [anbuSquad EXCEPT ![squadId].leaderId = newLeaderId]
                /\ \E last \in {squadId, NoSquad} :
                     anbuId' = [u \in Ninjas |->
                                  IF u = newLeaderId /\ u = old THEN last
                                  ELSE IF u = newLeaderId THEN squadId
                                  ELSE IF u = old THEN NoSquad
                                  ELSE anbuId[u]]
                /\ UNCHANGED <<userRequest, accepts>>
                /\ anbuCalls' = anbuCalls + 1
    /\ UNCHANGED combatVars
    /\ UNCHANGED worldVars

\* anbuRouter.disbandSquad
DisbandSquad(userId, squadId) ==
    LET message == IF ~live(squadId) THEN "Squad not found"
                   ELSE IF fetchUser(userId).villageId # anbuSquad[squadId].villageId
                   THEN "Wrong village"
                   ELSE IF ~isKage(userId) /\ ~fetchUser(userId).rank = "ELDER" THEN "Must be kage or elder"
                   ELSE None
    IN  /\ anbuCalls < MaxCalls
        /\ IF message # None
           THEN UNCHANGED anbuVars
           ELSE /\ anbuSquad' = [anbuSquad EXCEPT ![squadId] =
                                    [state |-> "deleted", villageId |-> None,
                                     leaderId |-> None]]
                /\ anbuId' = [u \in Ninjas |-> IF anbuId[u] = squadId THEN NoSquad ELSE anbuId[u]]
                /\ UNCHANGED <<userRequest, accepts>>
                /\ anbuCalls' = anbuCalls + 1
    /\ UNCHANGED combatVars
    /\ UNCHANGED worldVars

\* anbuRouter.kickMember
KickMember(userId, squadId, memberId) ==
    LET message ==
            IF ~live(squadId) THEN "Squad not found"
            ELSE IF anbuSquad[squadId].villageId # fetchUser(userId).villageId THEN "Wrong village"
            ELSE IF anbuId[userId] # squadId THEN "Not in squad"
            ELSE IF userId # anbuSquad[squadId].leaderId THEN "Not squad leader"
            ELSE IF memberId = anbuSquad[squadId].leaderId THEN "Cannot kick leader"
            ELSE None
    IN  /\ anbuCalls < MaxCalls
        /\ IF message # None
           THEN UNCHANGED anbuVars
           ELSE /\ anbuId' = [anbuId EXCEPT ![memberId] = NoSquad]
                /\ UNCHANGED <<anbuSquad, userRequest, accepts>>
                /\ anbuCalls' = anbuCalls + 1
    /\ UNCHANGED combatVars
    /\ UNCHANGED worldVars

\* anbuRouter.leaveSquad: another member, if there is one, takes over the
\* squads the leaver leads; else the squad is deleted.
LeaveSquad(userId, squadId) ==
    LET message == IF ~live(squadId) THEN "Squad not found"
                   ELSE IF fetchUser(userId).villageId # anbuSquad[squadId].villageId
                   THEN "Wrong village"
                   ELSE IF anbuId[userId] = NoSquad THEN "Not in a squad"
                   ELSE IF anbuId[userId] # squadId THEN "Wrong squad"
                   ELSE None
        others == members(squadId) \ {userId}
    IN  /\ anbuCalls < MaxCalls
        /\ IF message # None
           THEN UNCHANGED anbuVars
           ELSE /\ anbuId' = [anbuId EXCEPT ![userId] = NoSquad]
                /\ IF others # {}
                   THEN \E otherUser \in others :
                           anbuSquad' = [i \in SquadIds |->
                                           IF anbuSquad[i].state = "live"
                                              /\ anbuSquad[i].leaderId = userId
                                           THEN [anbuSquad[i] EXCEPT !.leaderId = otherUser]
                                           ELSE anbuSquad[i]]
                   ELSE anbuSquad' = [anbuSquad EXCEPT ![squadId] =
                                    [state |-> "deleted", villageId |-> None,
                                     leaderId |-> None]]
                /\ UNCHANGED <<userRequest, accepts>>
                /\ anbuCalls' = anbuCalls + 1
    /\ UNCHANGED combatVars
    /\ UNCHANGED worldVars

\* The router starts on empty tables, with nothing else going on.
InitAnbu ==
    /\ CombatIdle
    /\ WorldIdle

NextAnbu ==
    \/ \E userId \in Ninjas, squadId \in SquadIds : CreateRequest(userId, squadId)
    \/ \E userId \in Ninjas, id \in RequestIds : RejectRequest(userId, id)
    \/ \E userId \in Ninjas, id \in RequestIds : CancelRequest(userId, id)
    \/ \E c \in AcceptCalls, userId \in Ninjas, id \in RequestIds : AcceptRead(c, userId, id)
    \/ \E c \in AcceptCalls : AcceptWrite(c)
    \/ \E userId, leaderId \in Ninjas, villageId \in {"v1", "v2"} :
          CreateSquad(userId, leaderId, villageId)
    \/ \E userId, newLeaderId \in Ninjas, squadId \in SquadIds :
          SwapLeader(userId, squadId, newLeaderId)
    \/ \E userId \in Ninjas, squadId \in SquadIds : DisbandSquad(userId, squadId)
    \/ \E userId, memberId \in Ninjas, squadId \in SquadIds :
          KickMember(userId, squadId, memberId)
    \/ \E userId \in Ninjas, squadId \in SquadIds : LeaveSquad(userId, squadId)

SpecAnbu == InitAnbu /\ [][NextAnbu]_vars

------------------------------------------------------------------------------
(* Properties *)

Performs == {r \in Reqs : rq[r].kind = "perform"}
Writers  == {r \in Reqs : rq[r].kind \in {"perform", "get"}}

\* The store is as request q found it when it fetched the battle (one
\* request at a time).
StoreUntouched(q) ==
    /\ dbBattle = q.fetched
    /\ dbLog = {}
    /\ dbUsage = {}
    /\ dbUsers = [u \in Humans |-> [status |-> "BATTLE"]]

\* Request q has written nothing and published nothing.
WroteNothing(q) ==
    /\ q.wrote = 0 /\ q.commits = 0 /\ StoreUntouched(q)
    /\ q.published = 0 /\ pubs = {}

\* C1: when two requests have read the same stored row and both attempt the
\* write guarded by the version they read, the writes are not both accepted.
C1_OneWritePerReadVersion ==
    \A r1, r2 \in Writers :
        r1 # r2 =>
            \A w1 \in rq[r1].accepted, w2 \in rq[r2].accepted :
                ~(w1.read = w2.read /\ w1.old = w2.old)

\* C2: every accepted write that stores the battle row stores a version
\* strictly greater than the version the request read.
C2_VersionStrictlyIncreases ==
    \A r \in Writers :
        \A w \in rq[r].accepted : ~w.removed => w.new > w.old

\* C3: when a commit of performAction has failed, the retry works on a battle
\* fetched again: a request that is about to make its (attempts + 1)-th
\* commit attempt has fetched the battle attempts + 1 times.
C3_RetryFetchesAgain ==
    \A r \in Performs :
        rq[r].pc \in {"inner", "commit"} => rq[r].fetches = rq[r].attempts + 1

\* C4: a commit attempt of performAction that fails leaves none of its writes
\* behind: while no attempt of the request has succeeded (it is retrying, or
\* it has thrown), the store is as the request found it.
C4_CommitAllOrNothing ==
    \A r \in Performs :
        rq[r].pc \in {"inner", "commit", "thrown"} => StoreUntouched(rq[r])

\* What C5 says of the state of one request.
C5_Bounded(q) ==
    /\ q.commits <= 3
    /\ (q.commits = 3 /\ q.pc # "effects" /\ q.ret # "Success")
           => (q.pc = "thrown" /\ q.ret = "CommitError")
    /\ q.ret = "CommitError" => q.commits = 3

\* C5: performAction attempts the commit at most 3 times; when the third
\* attempt has failed the error is thrown to the caller; and once an attempt
\* has succeeded the request does nothing more.
C5_AtMostThreeCommits ==
    [][\A r \in Performs :
           /\ C5_Bounded(rq'[r])
           /\ rq[r].ret = "Success" => rq'[r] = rq[r]]_vars

\* Third commit attempt failed and the error went to the caller.
C5_Witness ==
    \E r \in Performs :
        rq[r].pc = "thrown" /\ rq[r].ret = "CommitError" /\ rq[r].commits = 3

\* C6: when the request's alignment finds an active actor that is not stunned,
\* is no self-controlled AI and is not controlled by the requester, the
\* request ends with "Not your turn"; and a request that ends so has written
\* nothing and published nothing.
C6_TurnExclusivity ==
    \A r \in Performs :
        LET q == rq[r]
        IN  /\ (q.iters > 0 /\ ~q.isStunned /\ ~isAi(q.actor) /\ q.actor # q.suid)
                   => (q.pc = "done" /\ q.ret = "NotYourTurn")
            /\ q.ret = "NotYourTurn" => WroteNothing(q)

\* A request from the user whose turn it is not has been turned away.
C6_Witness ==
    \E r \in Performs :
        /\ rq[r].ret = "NotYourTurn"
        /\ rq[r].actor # rq[r].suid
        /\ InputGiven(rq[r].input0)

\* C7: when the action resolver raises on the requester's action, the request
\* returns the error as a notification with updateClient = false, and it has
\* written nothing and published nothing.
C7_ResolverErrorLeavesStore ==
    \A r \in Performs :
        LET q == rq[r]
        IN  q.rejected => /\ q.pc = "done"
                          /\ q.ret = "ActionError"
                          /\ q.updateClient = "false"
                          /\ WroteNothing(q)

\* The resolver has raised on a target out of range.
C7_Witness ==
    \E r \in Performs :
        /\ rq[r].rejected
        /\ rq[r].ret = "ActionError"
        /\ <<rq[r].input0.longitude, rq[r].input0.latitude>> = FarTile

\* Request q differs from the battle it fetched: an action was performed, or
\* alignment changed round or activeUserId.
Changed(q) ==
    \/ q.actionPerformed
    \/ q.newBattle.round # q.originalRound
    \/ q.newBattle.activeUserId # q.originalActiveUserId

\* C8: a request whose attempt performed no action and left round and
\* activeUserId as fetched never reaches the commit; when it has passed the
\* turn check and no resolver raised it returns "Battle state was not
\* changed"; and a request that returns so has written nothing and published
\* nothing.
C8_NoChangeNoWrite ==
    \A r \in Performs :
        LET q == rq[r]
        IN  /\ (q.pc \in {"commit", "effects"} \/ q.ret \in {"Success", "CommitError"})
                   => Changed(q)
            /\ (q.pc = "done" /\ q.iters > 0 /\ ~Changed(q)
                  /\ q.ret \notin {"NotYourTurn", "ActionError", "AIError"})
                   => q.ret = "NotChanged"
            /\ q.ret = "NotChanged" => (~Changed(q) /\ WroteNothing(q))

\* A request on the requester's own turn that sent no action was answered
\* with "Battle state was not changed".
C8_Witness ==
    \E r \in Performs :
        /\ rq[r].ret = "NotChanged"
        /\ rq[r].actor = rq[r].suid
        /\ rq[r].input0 = NoInput

\* C9: no performAction request ends with a thrown error because its actionId
\* is not among the user's available actions.
C9_InvalidActionReturned ==
    \A r \in Performs : ~(rq[r].pc = "thrown" /\ rq[r].ret = "InvalidAction")

\* How many turns combatant u has consumed in battle b.
turnsTaken(b, u) == b.round + (IF u \in b.acted THEN 1 ELSE 0)

C11_ForcedSkipForStunnedNext ==
    \A r \in Performs :
        LET q == rq[r]
        IN  \A f \in q.forcedRuns :
                /\ f.by = f.for /\ f.stunned
                /\ q.ret \in {None, "Success", "CommitError"}
                /\ q.pc = "commit" => /\ f.for \in q.newBattle.acted
                                      /\ q.newBattle.activeUserId # f.for

\* C12: within one performAction request the number of actions applied and
\* recorded as history entries never exceeds 5, and no more than 5 entries are
\* written to the action log by one request.
C12_AtMostFiveActions ==
    \A r \in Performs :
        /\ rq[r].nActions <= ChainCap
        /\ Len(rq[r].history) <= ChainCap
        /\ \A e \in dbLog : e.req = r => e.idx <= ChainCap

\* The returns of performAction that come before the commit.
EarlyReturns ==
    {"NoBattle", "NotYourTurn", "ActionError", "AIError", "NoDescription",
     "NotChanged"}

\* Request r has published the notification of its current attempt.
Announced(r) == \E p \in pubs : p.req = r /\ p.attempt = rq[r].attempts

\* C19: a request that stands before the write of a commit attempt, or has
\* just made it, has published the notification of that attempt exactly when
\* the result is not terminal (none when the battle is over for both sides);
\* and an attempt that returned or threw before the commit has published
\* nothing.
C19_PublishBeforeWrite ==
    \A r \in Performs :
        LET q == rq[r]
        IN  /\ q.pc \in {"commit", "effects"} =>
                  (Announced(r) <=> ~isBattleOver(q.result))
            /\ (q.ret \in EarlyReturns \/ q.ret = "InvalidAction") =>
                  ~Announced(r)
            /\ q.published = Cardinality({p \in pubs : p.req = r})

\* A non-terminal commit was announced and then written.
C19_Witness ==
    \E r \in Performs :
        /\ rq[r].ret = "Success" /\ ~isBattleOver(rq[r].result)
        /\ rq[r].published = 1 /\ rq[r].wrote = 1

\* A terminal commit was written without any notification.
C19_WitnessTerminal ==
    \E r \in Performs :
        /\ rq[r].ret = "Success" /\ isBattleOver(rq[r].result)
        /\ rq[r].published = 0 /\ rq[r].wrote = 1

C13_FailedInitiationWritesNothing ==
    [][\A c \in Calls :
          (calls[c].pc # "done" /\ calls'[c].pc = "done" /\ ~calls'[c].success)
              => /\ battles' = battles
                 /\ battleHistory' = battleHistory
                 /\ userData' = userData]_vars

\* The COMBAT calls between two human users that returned success.
Started ==
    {c \in Calls : /\ calls[c].pc = "done" /\ calls[c].success
                   /\ calls[c].battleType = "COMBAT"
                   /\ ~isAi(calls[c].userId) /\ ~isAi(calls[c].targetId)}

participants(c) == {calls[c].userId, calls[c].targetId} \ AIs

\* The battles user u is in: the battle rows that some user row points to and
\* in which u is a combatant.
battlesOf(u) ==
    {b \in battles :
        /\ \E v \in Players : userData[v].battleId = b.id
        /\ \E i \in 1 .. Len(b.usersState) : b.usersState[i].userId = u}

\* C15: of two initiateBattle calls that share a non-AI participant at most
\* one returns success, and no non-AI user is a combatant of two battles at
\* once.
C15_OneBattlePerUser ==
    /\ \A c1, c2 \in Calls :
          (c1 # c2 /\ calls[c1].pc = "done" /\ calls[c2].pc = "done"
           /\ participants(c1) \cap participants(c2) # {})
              => ~(calls[c1].success /\ calls[c2].success)
    /\ \A u \in Players : Cardinality(battlesOf(u)) <= 1

\* C15, the first half alone: of two calls that share a non-AI participant
\* at most one returns success.
C15_AtMostOneSuccess ==
    \A c1, c2 \in Calls :
        (c1 # c2 /\ calls[c1].pc = "done" /\ calls[c2].pc = "done"
         /\ participants(c1) \cap participants(c2) # {})
            => ~(calls[c1].success /\ calls[c2].success)

\* The battles whose initiation returned success.
StartedBattles == {calls[c].message : c \in {d \in Calls : calls[d].pc = "done" /\ calls[d].success}}

\* C16: while a battle exists whose initiation succeeded, the user row of
\* every non-AI combatant of it keeps status BATTLE, whatever else is called
\* meanwhile (a staff forceAwake in particular).
C16_ParticipantsStayInBattle ==
    \A b \in battles :
        b.id \in StartedBattles =>
            \A i \in 1 .. Len(b.usersState) :
                LET u == b.usersState[i].userId
                IN  ~isAi(u) => userData[u].status = "BATTLE"

\* C17: the rewardScaling a call computes for a battle between users that
\* had n battles with each other within the last 60 minutes (in either
\* direction, the battle being created not counted) is 1 for n = 0 and
\* 1/(n+1) otherwise; for an ARENA battle it is 1. The battle row stores it.
C17_RewardScaling ==
    /\ \A c \in Calls :
          calls[c].pc \in {"write", "done"} /\ calls[c].battleId # None =>
              calls[c].rewardScaling =
                  IF calls[c].battleType = "ARENA"
                  THEN [num |-> 1, den |-> 1]
                  ELSE [num |-> 1, den |-> calls[c].encounters + 1]
    /\ \A b \in battles : \A c \in Calls :
          b.id = calls[c].battleId => b.rewardScaling = calls[c].rewardScaling

\* The battleHistory entries of battle id.
entriesOf(id) == {h \in battleHistory : h.battleId = id}

\* C18: a non-ARENA initiation that returned success has added exactly one
\* battleHistory entry, with its attacker, defender and battle id; an ARENA
\* initiation has added none; and every entry that a call has added belongs
\* to a battle whose initiation returned success.
C18_HistoryEntryPerInitiation ==
    /\ \A c \in Calls :
          (calls[c].pc = "done" /\ calls[c].success) =>
              IF calls[c].battleType = "ARENA"
              THEN entriesOf(calls[c].message) = {}
              ELSE entriesOf(calls[c].message) =
                       {[battleId |-> calls[c].message,
                         attackedId |-> calls[c].userId,
                         defenderId |-> calls[c].targetId,
                         createdAt |-> "recent"]}
    /\ \A c \in Calls :
          entriesOf(BattleIdOf(c)) # {} => (calls[c].pc = "done" /\ calls[c].success)

\* C21: a step in which getBattle answers a request without battleId, or finds
\* no battle row, returns { battle: null, result: null } and writes nothing to
\* the battle, the user rows or anything else in the store; a step in which
\* performAction finds no battle row returns { updateClient: true } and writes
\* nothing; and a getBattle request without battleId has not even read.
C21_MissingBattle ==
    [][\A r \in Writers :
          (rq[r].ret = None /\ rq'[r].ret \in {"NoBattle", "NoBattleId"}) =>
              /\ rq'[r].pc = "done"
              /\ <<dbBattle, dbUsers, dbLog, dbUsage, pubs>>'
                    = <<dbBattle, dbUsers, dbLog, dbUsage, pubs>>
              /\ ~dbBattle.exists \/ rq[r].battleId = None
              /\ rq[r].kind = "get" =>
                    /\ ~rq'[r].returned.exists /\ ~rq'[r].result.some
                    /\ rq[r].battleId = None => rq'[r].fetches = 0 /\ rq'[r].attempts = 0
              /\ rq[r].kind = "perform" =>
                    /\ rq'[r].updateClient = "true"
                    /\ ~rq'[r].returned.exists
                    /\ rq'[r].wrote = 0 /\ rq'[r].published = 0]_vars

\* performAction found no battle row and told the client to update.
C21_Witness ==
    \E r \in Performs :
        /\ rq[r].ret = "NoBattle" /\ rq[r].updateClient = "true"
        /\ ~dbBattle.exists /\ rq[r].wrote = 0

\* getBattle answered a request without battleId.
C21_WitnessNoId ==
    \E r \in Writers :
        rq[r].kind = "get" /\ rq[r].ret = "NoBattleId" /\ rq[r].battleId = None

Gets == {r \in Reqs : rq[r].kind = "get"}

\* C22: getBattle makes at most 3 attempts; the battle an attempt aligns and
\* commits is the one read in that same attempt; a step of attempt 1 or 2
\* that fails leads to a new attempt, which reads again; a step of attempt 3
\* that fails throws the error to the caller; and a request that has returned
\* or thrown does nothing more.
C22_GetBattleThreeAttempts ==
    [][\A r \in Gets :
          LET q == rq[r]
              n == rq'[r]
          IN  /\ n.attempts <= 3
              /\ n.pc \in {"gupdate", "guser"} =>
                    (n.fetchedAt = n.attempts /\ n.fetches >= 1)
              /\ (q.pc = "gfetch" /\ n.pc = "gfetch" /\ n # q) =>
                    (n.attempts = q.attempts + 1 /\ n.attempts < 3)
              /\ (q.pc \in {"gupdate", "guser"} /\ n.pc = "gfetch") =>
                    (n.attempts = q.attempts /\ n.attempts < 3)
              /\ (q.pc # "thrown" /\ n.pc = "thrown") =>
                    (n.ret = "GetError" /\ n.attempts = 3)
              /\ (q.attempts = 3 /\ n # q) => n.pc \in {"gupdate", "guser", "done", "thrown"}
              /\ q.pc \in {"done", "thrown"} => n = q]_vars

\* getBattle failed three times and threw.
C22_Witness ==
    \E r \in Gets :
        rq[r].pc = "thrown" /\ rq[r].ret = "GetError" /\ rq[r].attempts = 3

Arenas == {c \in Calls : calls[c].battleType = "ARENA"}

\* The caller of arena call c is missing, or not on the village tile of the
\* own village's sector, or there is no AI.
ArenaBarred(c) ==
    LET u == calls[c].userId
    IN  \/ u \notin DOMAIN userData
        \/ <<userData[u].longitude, userData[u].latitude>> # <<Here[2], Here[3]>>
        \/ userData[u].sector # userData[u].villageSector
        \/ AIs \cap DOMAIN userData = {}

\* C24: the target startArenaBattle passes to initiateBattle is an AI whose
\* level distance to the caller is least among all AIs; and when the caller
\* is not found, is not in the own village (tile and sector) or there is no
\* AI, the call returns success = false, initiateBattle is not called and no
\* battle row is created; otherwise initiateBattle is called.
C24_ArenaClosestAI ==
    \A c \in Arenas :
        LET call == calls[c]
            u    == call.userId
        IN  /\ call.targetId # None =>
                  /\ isAi(call.targetId) /\ call.targetId \in DOMAIN userData
                  /\ \A b \in AIs \cap DOMAIN userData :
                        Abs(userData[call.targetId].level - userData[u].level)
                            <= Abs(userData[b].level - userData[u].level)
            /\ ArenaBarred(c) =>
                  /\ call.pc = "done" /\ ~call.success
                  /\ call.targetId = None /\ call.battleId = None
                  /\ \A b \in battles : b.id # BattleIdOf(c)
            /\ ~ArenaBarred(c) => call.targetId # None

\* Of two AIs the one nearer in level was matched, and the battle was started.
C24_Witness ==
    \E c \in Arenas :
        /\ calls[c].pc = "done" /\ calls[c].success
        /\ AIs \subseteq DOMAIN userData
        /\ userData[calls[c].userId].level = 3
        /\ calls[c].targetId = "ai2"

\* A caller outside the own village was turned away.
C24_WitnessBarred ==
    \E c \in Arenas :
        /\ calls[c].pc = "done" /\ ~calls[c].success
        /\ calls[c].userId \in DOMAIN userData
        /\ ArenaBarred(c) /\ battles = {}


\* C25: after regeneration the snapshot has cur <= max for health, chakra
\* and stamina, and, the regeneration not being negative, no pool is below
\* its value before: each is min(cur + regen, max).
C25_RegenerationClamped ==
    snapshot.step \in {"regenerated", "ranked"} =>
        LET b == snapshot.before
            u == snapshot.user
            r == regen(b)
        IN  /\ u.curHealth <= u.maxHealth
            /\ u.curChakra <= u.maxChakra
            /\ u.curStamina <= u.maxStamina
            /\ r >= 0 => /\ u.curHealth >= b.curHealth
                         /\ u.curChakra >= b.curChakra
                         /\ u.curStamina >= b.curStamina
            /\ u.curHealth = Min(b.curHealth + r, b.maxHealth)
            /\ u.curChakra = Min(b.curChakra + r, b.maxChakra)
            /\ u.curStamina = Min(b.curStamina + r, b.maxStamina)
            /\ u.maxHealth = b.maxHealth
            /\ u.maxChakra = b.maxChakra
            /\ u.maxStamina = b.maxStamina

\* One pool is cut off at its maximum while another one grows below it.
C25_Witness ==
    /\ snapshot.step = "regenerated"
    /\ snapshot.before.curHealth + regen(snapshot.before) > snapshot.before.maxHealth
    /\ snapshot.user.curHealth = snapshot.user.maxHealth
    /\ snapshot.before.curStamina < snapshot.user.curStamina
    /\ snapshot.user.curStamina < snapshot.user.maxStamina

rank(school) == CHOOSE i \in 1..Len(Schools) : Schools[i] = school

latestMaximum(stats, school) ==
    /\ school \in DOMAIN stats
    /\ \A s \in DOMAIN stats : stats[s] <= stats[school]
    /\ \A s \in DOMAIN stats : stats[s] = stats[school] => rank(s) <= rank(school)

\* C26: highestOffence names a school whose offence is the maximum of the
\* four, highestDefence one whose defence is; of several schools at the
\* maximum the latest of ninjutsu, genjutsu, taijutsu, bukijutsu is named.
C26_HighestStat ==
    snapshot.step = "ranked" =>
        /\ latestMaximum(snapshot.user.offences, snapshot.user.highestOffence)
        /\ latestMaximum(snapshot.user.defences, snapshot.user.highestDefence)

\* Ninjutsu and taijutsu tie for the strongest offence: taijutsu is named.
C26_Witness ==
    /\ snapshot.step = "ranked"
    /\ snapshot.user.offences["ninjutsu"] = 2
    /\ snapshot.user.offences["taijutsu"] = 2
    /\ snapshot.user.offences["bukijutsu"] = 1
    /\ snapshot.user.highestOffence = "taijutsu"
    /\ snapshot.user.defences["genjutsu"] = 2
    /\ snapshot.user.defences["ninjutsu"] = 1
    /\ snapshot.user.highestDefence = "genjutsu"


onMap(e) ==
    /\ e.longitude \in 0..(COMBAT_WIDTH - 1)
    /\ e.latitude \in 0..(COMBAT_HEIGHT - 1)

\* C28: whatever the random draws, the starting ground effects have at most
\* one effect per tile, each lies on the COMBAT_WIDTH x COMBAT_HEIGHT map and
\* has the id initial-<col>-<row> of its tile, and none lies on one of the
\* combatants' tiles (4,2) and (8,2).
C28_GroundEffects ==
    snapshot.step \in {"ground", "placed"} =>
        LET g == snapshot.groundEffects
        IN  /\ \A i, j \in 1..Len(g) :
                   g[i].longitude = g[j].longitude /\ g[i].latitude = g[j].latitude
                       => i = j
            /\ \A i \in 1..Len(g) :
                   /\ onMap(g[i])
                   /\ g[i].id = <<"initial", g[i].longitude, g[i].latitude>>
                   /\ <<g[i].longitude, g[i].latitude>> \notin {<<4, 2>>, <<8, 2>>}

\* The whole map was visited and two draws were low: one put a rock on its
\* tile, the other fell on a combatant's tile and put nothing.
C28_Witness ==
    /\ snapshot.step = "placed"
    /\ Len(snapshot.groundEffects) = 1
    /\ snapshot.draws = 2
    /\ snapshot.groundEffects[1].staticAssetPath = "rock"


\* Call c reads the two users in this step.
ReadsUsers(c) ==
    /\ calls[c].pc \in {"idle", "called"}
    /\ calls'[c].pc \in {"done", "write"}
    /\ Len(calls'[c].users) = 2

\* Call c returns success in this step.
Succeeds(c) ==
    /\ calls[c].pc = "write"
    /\ calls'[c].pc = "done"
    /\ calls'[c].success

\* C27: initiateBattle fails, and creates no battle, when the target's
\* immunityUntil lies in the future, while the attacker's immunity is not
\* looked at; a successful SPARRING or COMBAT initiation sets the attacker's
\* immunityUntil to now and leaves the defender's as it was, a successful
\* ARENA initiation leaves both as they were.
C27_Immunity ==
    [][\A c \in Calls :
        LET attacker == calls'[c].users[1]
            defender == calls'[c].users[2]
        IN  /\ ReadsUsers(c) /\ userData[defender].immunityUntil = "future" =>
                /\ calls'[c].pc = "done"
                /\ ~calls'[c].success
                /\ battles' = battles
                /\ \A b \in battles' : b.id # BattleIdOf(c)
            /\ /\ ReadsUsers(c)
               /\ userData[attacker].immunityUntil = "future"
               /\ userData[defender].immunityUntil # "future"
               /\ userData[attacker].status = "AWAKE"
               /\ userData[defender].status = "AWAKE"
               => calls'[c].pc = "write"
            /\ Succeeds(c) /\ calls[c].battleType \in {"SPARRING", "COMBAT"} =>
                /\ userData'[attacker].immunityUntil = "now"
                /\ userData'[defender].immunityUntil = userData[defender].immunityUntil
            /\ Succeeds(c) /\ calls[c].battleType = "ARENA" =>
                /\ userData'[attacker].immunityUntil = userData[attacker].immunityUntil
                /\ userData'[defender].immunityUntil = userData[defender].immunityUntil
      ]_vars

\* An attack on an immune target has failed without a battle, and an attack
\* by an immune user has succeeded and left the attacker's immunity at now.
C27_Witness ==
    \E c, d \in Calls :
        /\ calls[c].pc = "done"
        /\ calls[c].message = "Target is immune"
        /\ \A b \in battles : b.id # BattleIdOf(c)
        /\ calls[d].pc = "done"
        /\ calls[d].success
        /\ calls[d].battleType = "COMBAT"
        /\ calls[d].userId = calls[c].targetId
        /\ userData[calls[d].userId].immunityUntil = "now"

\* An immune user has started an arena battle and is immune as before.
C27_WitnessArena ==
    \E c \in Calls :
        /\ calls[c].pc = "done"
        /\ calls[c].success
        /\ calls[c].battleType = "ARENA"
        /\ userData[calls[c].userId].immunityUntil = "future"


\* Request r, a getBattle query, takes this step.
GetStep(r) == rq[r].kind = "get" /\ rq'[r] # rq[r]

\* C29: getBattle writes the battle record only when the alignment of this
\* attempt progressed the round or the battle is over for both sides, guarded
\* by the version it fetched; in every other step of the query the stored
\* battle, state and version, stays as it is.  A write for a progressed round
\* stores the fetched version plus one.
C29_GetBattleWrites ==
    [][\A r \in Reqs : GetStep(r) =>
        /\ dbBattle' # dbBattle =>
            /\ rq[r].pc = "gupdate"
            /\ rq[r].progressRound \/ isBattleOver(rq[r].result)
            /\ dbBattle.exists
            /\ dbBattle.version = rq[r].fetchedVersion
            /\ rq[r].fetched = dbBattle
        /\ (rq[r].pc = "gupdate" /\ rq'[r].wrote = rq[r].wrote + 1
                /\ rq[r].progressRound /\ ~isBattleOver(rq[r].result)) =>
            /\ dbBattle'.exists
            /\ dbBattle'.version = rq[r].fetchedVersion + 1
            /\ dbBattle'.round = dbBattle.round + 1
        /\ (rq[r].pc = "gfetch" /\ rq'[r].pc \in {"guser", "done"}) =>
            ~(rq'[r].progressRound \/ isBattleOver(rq'[r].result))
      ]_vars

\* A query has progressed the round and stored the next version.
C29_Witness ==
    \E r \in Reqs :
        /\ rq[r].kind = "get" /\ rq[r].pc = "done" /\ rq[r].wrote = 1
        /\ rq[r].progressRound /\ ~isBattleOver(rq[r].result)
        /\ dbBattle.exists
        /\ dbBattle.version = rq[r].fetchedVersion + 1

\* A query has found nothing to progress and has answered without a write.
C29_WitnessNoWrite ==
    \E r \in Reqs :
        /\ rq[r].kind = "get" /\ rq[r].pc = "done" /\ rq[r].ret = "Got"
        /\ rq[r].wrote = 0
        /\ dbBattle = rq[r].fetched


\* The request is about to commit, or has committed, what it computed.
Committing(q) == q.pc \in {"commit", "effects"} \/ (q.pc = "done" /\ q.ret = "Success")

\* The history's battleVersion values count up from the version read.
CountsUp(q) ==
    \A i \in 1..Len(q.history) :
        q.history[i].battleVersion = q.fetched.version + (i - 1)

\* The version handed to the store is the version read plus the number of
\* history entries.
CommitsNext(q) ==
    q.pc \in {"effects", "done"} =>
        q.newBattle.version = q.fetched.version + Len(q.history)

\* C30: the history entries of a performAction request carry pairwise
\* distinct, consecutive battleVersion values in the order of application,
\* starting at the version the request read, and the version it commits is
\* the version read plus the number of history entries, on the first attempt
\* and on every retry.
C30_HistoryVersions ==
    \A r \in Performs :
        Committing(rq[r]) => CountsUp(rq[r]) /\ CommitsNext(rq[r])

\* The same for requests none of whose commits has failed.
C30_FirstAttempt ==
    \A r \in Performs :
        Committing(rq[r]) /\ rq[r].attempts = 0 => CountsUp(rq[r]) /\ CommitsNext(rq[r])

\* A first attempt has committed a history of two entries.
C30_WitnessFirstAttempt ==
    \E r \in Performs :
        /\ rq[r].pc = "done" /\ rq[r].ret = "Success"
        /\ rq[r].attempts = 0
        /\ Len(rq[r].history) = 2
        /\ rq[r].newBattle.version = rq[r].fetched.version + 2


\* The locals of a request, without the count of its iterations.
Locals(q) == [q EXCEPT !.iters = 0]

\* C31: every performAction request ends: whatever the battle, the action
\* resolver and the AI do, the inner loop comes to a return or to a thrown
\* error after finitely many iterations.  The loop reads nothing but its
\* locals, so it ends exactly if no iteration leaves it with the locals it
\* began with.
C31_PerformTerminates ==
    [][\A r \in Reqs :
          rq[r].pc = "inner" /\ rq'[r].pc = "inner" => Locals(rq'[r]) # Locals(rq[r])]_vars


\* The requester's own action has been applied in request q.
OwnActionApplied(q) ==
    \E i \in 1..Len(q.history) :
        q.history[i].actor = q.suid /\ q.history[i].action # "skip"

\* C32: a performAction request in which the requester's own action has been
\* applied ends by attempting to commit it; it does not return a failure
\* notification of a later chained step and drop the applied action.
C32_AppliedActionCommitted ==
    \A r \in Performs :
        OwnActionApplied(rq[r]) /\ rq[r].pc \in {"done", "thrown"} => rq[r].commits > 0


\* The actions recorded in the history of request q.
Recorded(q) == {i \in 1..Len(q.history) : q.history[i].action # "none"}

\* C33: every step of the inner loop works on the state the step before
\* left, so the battle a performAction request commits is the battle it read
\* with all the actions of its history applied, one after the other; no
\* applied action is lost to a later step that starts from the battle as
\* fetched.
C33_CommitsAllRecorded ==
    \A r \in Performs :
        Committing(rq[r]) =>
            rq[r].newBattle.applied = rq[r].fetched.applied + Cardinality(Recorded(rq[r]))


\* The versions request r announced in the attempt it is in.
AnnouncedVersions(r) ==
    {p.version : p \in {n \in pubs : n.req = r /\ n.attempt = rq[r].attempts}}

\* C34: the version a performAction request announces in its notification
\* is the version its commit stores, however many actions the request has
\* chained.
C34_AnnouncedIsStored ==
    \A r \in Performs :
        rq[r].pc = "effects" /\ dbBattle.exists =>
            \A v \in AnnouncedVersions(r) : v = dbBattle.version

\* The same for requests that recorded one action.
C34_SingleAction ==
    \A r \in Performs :
        rq[r].pc = "effects" /\ dbBattle.exists /\ rq[r].nActions = 1 /\ rq[r].attempts = 0 =>
            \A v \in AnnouncedVersions(r) : v = dbBattle.version


\* C35: an ANBU join request leaves PENDING at most once: rejectRequest,
\* cancelRequest and acceptRequest change the status only of a request that
\* is PENDING, and only an accept of a PENDING request adds its sender to a
\* squad; a rejected or cancelled request is never accepted afterwards.
C35_LeavesPendingOnce ==
    [][\A i \in RequestIds :
          /\ userRequest'[i].status # userRequest[i].status =>
                userRequest[i].status \in {"none", "PENDING"}
          /\ userRequest[i].status \in {"REJECTED", "CANCELLED"} =>
                userRequest'[i].status # "ACCEPTED"]_vars

\* The same for a request whose accept reads and writes with no other call
\* in between: the guards of acceptRequest alone let it through.
C35_AcceptOfPending ==
    [][\A c \in AcceptCalls, userId \in Ninjas, i \in RequestIds :
          AcceptRead(c, userId, i) /\ accepts'[c].pc = "read" =>
              userRequest[i].status = "PENDING"]_vars

\* C36: no ANBU squad has more than ANBU_MAX_MEMBERS members.
C36_SquadSize ==
    \A i \in SquadIds : live(i) => Cardinality(members(i)) <= ANBU_MAX_MEMBERS

\* C37: the leader of every existing squad is a member of it, and no user's
\* anbuId is the id of a squad that does not exist.
C37_LeaderIsMember ==
    /\ \A i \in SquadIds : live(i) => anbuId[anbuSquad[i].leaderId] = i
    /\ \A u \in Ninjas : anbuId[u] # NoSquad => live(anbuId[u])

\* C38: a kickMember call changes the anbuId only of the user it names, and
\* only if that user is a member of the squad it names, the caller is in that
\* squad and leads it.
C38_KickMemberFrame ==
    [][\A userId, memberId \in Ninjas, squadId \in SquadIds :
          KickMember(userId, squadId, memberId) =>
              \A u \in Ninjas :
                  anbuId'[u] # anbuId[u] =>
                      /\ u = memberId
                      /\ anbuId[u] = squadId
                      /\ anbuId[userId] = squadId
                      /\ anbuSquad[squadId].leaderId = userId]_vars

\* The level of the ANBU hall of a village; 0 where there is none.
hallLevel(villageId) ==
    LET halls == {h \in fetchVillage(villageId).structures : h.name = "ANBU"}
    IN  IF halls = {} THEN 0 ELSE (CHOOSE h \in halls : TRUE).level

\* C39: a village has no more ANBU squads than the level of its ANBU hall.
C39_SquadsWithinLevel ==
    \A v \in {"v1", "v2"} : Cardinality(fetchSquads(v)) <= hallLevel(v)

\* C39, the step: createSquad for a village that has as many squads as the
\* level of its hall creates nothing.
C39_CreateSquadRefuses ==
    [][\A userId, leaderId \in Ninjas, villageId \in {"v1", "v2"} :
          /\ CreateSquad(userId, leaderId, villageId)
          /\ Cardinality(fetchSquads(villageId)) >= hallLevel(villageId)
          => UNCHANGED <<anbuSquad, anbuId>>]_vars

====
